---------------------------- MODULE Spec2Model ----------------------------
(***************************************************************************)
(* Model of the contract-invocation client of skills-nuxt-web3-onboard:    *)
(*   useContract (read / write / fetchData / getReadContract /             *)
(*   getWriteContract), utils/rpc-provider.ts (getRpcProvider,             *)
(*   clearProviderCache, getRpcEndpoints), the wallet store the client     *)
(*   polls (stores/web3.ts) and the plugin that sets it up                 *)
(*   (plugins/web3Onboard.client.ts).                                      *)
(*                                                                         *)
(* JavaScript runs the code on one thread: a synchronous stretch is one    *)
(* atomic action, and every `await` ends an action.  The outcome of a      *)
(* network operation (a probe, a call, a simulation, a submission) is an   *)
(* input of the action that resumes after it.                              *)
(***************************************************************************)
EXTENDS Integers, Sequences, FiniteSets, TLC

VARIABLES
    connectedWallet,  \* stores/web3.ts: wallets[0] of the onboard state, or none
    submitting,       \* useContract: submitting ref, one per client instance
    wr,               \* the write() calls: position and locals of each
    txCount,          \* submissions the signer has accepted so far
    loading,          \* useContract: loading ref, one per client instance
    latestFetchId,    \* useContract: latestFetchId, one per client instance
    rd,               \* the read() calls: position and locals of each
    completed,        \* the reads fetchData has resumed on, in completion order
    providerCache,    \* rpc-provider.ts: providerCache, chain -> handle
    rpc,              \* the direct getRpcProvider() calls
    cleared,          \* history: clearProviderCache has run and no
                      \* getRpcProvider call has started since
    calc,             \* the last call of a pure helper: its name, its
                      \* arguments and what it returned or threw
    web3Store,        \* stores/web3.ts: onboard, onboardState, isConnecting,
                      \* alreadyConnectedWallets
    localStorage,     \* the text stored under 'alreadyConnectedWallets'
    storeCalls,       \* the calls of the store's async actions
    page              \* history of the page since the store was set up

vars == << connectedWallet, submitting, wr, txCount, loading, latestFetchId,
           rd, completed, providerCache, rpc, cleared, calc,
           web3Store, localStorage, storeCalls, page >>

writeVars == << submitting, wr, txCount >>
readVars  == << loading, latestFetchId, rd, completed >>
rpcVars   == << rpc, cleared >>
storeVars == << web3Store, localStorage, storeCalls, page >>

(***************************************************************************)
(* Bounds of the model.                                                    *)
(***************************************************************************)
MaxWrites  == 2     \* write() calls over a run
MaxReads   == 2     \* read() calls over a run
MaxRpc     == 3     \* direct getRpcProvider() calls over a run
MaxStoreCalls == 2  \* calls of the store's async actions on a page
MaxInits   == 2     \* init() calls on a page

\* the useContract instances: one on a chain with a pool, one on the chain
\* without (ConfigChainId below)
Clients == { 1, 2 }

\* the instances of a page on which two components use the same contract:
\* instances 1 and 3 have the same config
SharedClients == { 1, 3 }
Instances == Clients \cup SharedClients
Writes  == 1 .. MaxWrites
\* the calls of the page on which reads and a write overlap
PageReads  == { 1, 2 }
PageWrites == { 1 }
Reads   == 1 .. MaxReads
RpcCalls == 1 .. MaxRpc

(***************************************************************************)
(* Chains.  56 and 97 have an endpoint pool, 11155111 is an enabled chain  *)
(* without one; NoChain is the store's chainId of null.                    *)
(***************************************************************************)
NoChain == 0

RPC_ENDPOINTS ==
    (56 :> << "https://bsc-rpc.publicnode.com",
              "https://bsc.blockrazor.xyz",
              "https://bsc.drpc.org" >>)
    @@
    (97 :> << "https://bsc-testnet-rpc.publicnode.com",
              "https://bsc-testnet.public.blastapi.io",
              "https://bsc-testnet.drpc.org" >>)

ENABLED_CHAIN_IDS == { 56, 97, 11155111 }

\* config.chainId of each client instance (the ContractDescriptor's chain):
\* the second instance is on the chain without a pool
ConfigChainId(c) == IF c = 2 THEN 11155111 ELSE 56

(***************************************************************************)
(* The signer, as the wallet store derives it from the onboard state.      *)
(***************************************************************************)
NoWallet == [ present |-> FALSE, chain |-> NoChain, provider |-> "none" ]

\* provider: "ok" an EIP-1193 object, "bad" an object BrowserProvider
\* refuses, "none" a missing one
WalletStates ==
    { NoWallet }
    \cup [ present : {TRUE}, chain : {56, 11155111}, provider : {"ok"} ]
    \cup { [ present |-> TRUE, chain |-> 56, provider |-> "none" ],
           [ present |-> TRUE, chain |-> 56, provider |-> "bad" ] }

isConnected(w) == w.present
chainId(w)     == IF w.present THEN w.chain ELSE NoChain
HasProvider(w) == w.present /\ w.provider # "none"

(***************************************************************************)
(* Errors.  An error object carries a message and up to three revert       *)
(* payloads (e.data, e.error.data, e.info.error.data); a payload is a      *)
(* selector and its argument, NoData an absent or empty one.               *)
(***************************************************************************)
NoData == [ sel |-> "", arg |-> "" ]
ErrorString(s) == [ sel |-> "Error(string)", arg |-> s ]
CustomError(n) == [ sel |-> n, arg |-> "" ]

MkError(msg, d, ed, ied) ==
    [ message |-> msg, data |-> d, error_data |-> ed, info_error_data |-> ied ]

NewError(msg) == MkError(msg, NoData, NoData, NoData)
NoError == NewError("")

NotConnectedError == NewError("Wallet not connected")
WrongNetworkError(expected) ==
    NewError(IF expected = 56 THEN "Wrong network. Please switch to chain 56"
             ELSE IF expected = 97 THEN "Wrong network. Please switch to chain 97"
             ELSE "Wrong network. Please switch to chain 11155111")

NoEndpointsError(ch) ==
    NewError(IF ch = 56 THEN "No RPC endpoints configured for chain ID 56"
             ELSE IF ch = 97 THEN "No RPC endpoints configured for chain ID 97"
             ELSE "No RPC endpoints configured for chain ID 11155111")
AllEndpointsFailedError(ch) ==
    NewError(IF ch = 56 THEN "All RPC endpoints failed for chain ID 56"
             ELSE IF ch = 97 THEN "All RPC endpoints failed for chain ID 97"
             ELSE "All RPC endpoints failed for chain ID 11155111")
StaleError == NewError("Stale fetch result")

\* what the libraries throw, outside the repository
InvalidProviderError == NewError("invalid EIP-1193 provider")
CallError            == NewError("missing response")
NoFragmentError      == NewError("no matching fragment")
SignerRejectedError  == NewError("user rejected action")

\* the errors of the contract schema (config.abi)
AbiErrors == { "TooManyEpochs" }

\* failures of a simulation or a submission; the last is thrown without a
\* request when config.abi has no such function
RevertErrors ==
    { MkError("execution reverted: \"Insufficient balance\"",
              ErrorString("Insufficient balance"), NoData, NoData),
      MkError("execution reverted (unknown custom error)",
              NoData, CustomError("TooManyEpochs"), NoData),
      MkError("could not coalesce error",
              NoData, NoData, ErrorString("Paused")),
      MkError("execution reverted (no matching error)",
              CustomError("0xdeadbeef"), ErrorString("shadowed"), NoData),
      MkError("missing revert data",
              CustomError("not-hex"), NoData, NoData),
      NoFragmentError }

\* the three fields tried from the innermost outwards
extractRevertData_NestedFirst(e) ==
    IF e.info_error_data # NoData THEN e.info_error_data
    ELSE IF e.error_data # NoData THEN e.error_data
    ELSE e.data

\* extractRevertData: e?.data || e?.error?.data || e?.info?.error?.data
extractRevertData(e) ==
    IF e.data # NoData THEN e.data
    ELSE IF e.error_data # NoData THEN e.error_data
    ELSE e.info_error_data

\* Interface.parseError: hexlify throws on what is no hex string; null when
\* no fragment has the selector; else the error's description
NullDescription == [ threw |-> FALSE, found |-> FALSE, name |-> "", arg |-> "" ]
parseError(data) ==
    IF data.sel = "not-hex"
      THEN [ threw |-> TRUE, found |-> FALSE, name |-> "", arg |-> "" ]
    ELSE IF data.sel = "Error(string)"
      THEN [ threw |-> FALSE, found |-> TRUE, name |-> "Error", arg |-> data.arg ]
    ELSE IF data.sel \in AbiErrors
      THEN [ threw |-> FALSE, found |-> TRUE, name |-> data.sel, arg |-> "" ]
    ELSE NullDescription

\* decoded?.name === 'Error' ? String(decoded?.args?.[0]) : `${decoded?.name}`
DecodedMessage(decoded) ==
    IF ~decoded.found THEN "undefined"
    ELSE IF decoded.name = "Error" THEN decoded.arg
    ELSE decoded.name

\* The statements inside the inner `try` of both catch blocks: parseError,
\* then `throw new Error(msg)`.  The block never completes normally.
DecodeAndThrow(data) ==
    LET decoded == parseError(data) IN
    IF decoded.threw THEN [ thrown |-> TRUE, err |-> NewError("invalid BytesLike value") ]
    ELSE [ thrown |-> TRUE, err |-> NewError(DecodedMessage(decoded)) ]

\* the inner `try` without its catch: whatever the decoding throws leaves
TryDecodeElseRaw_NoCatch(data, e) == DecodeAndThrow(data).err

\* try { DecodeAndThrow } catch { throw e }: what leaves the try statement
TryDecodeElseRaw(data, e) ==
    LET body == DecodeAndThrow(data) IN
    IF body.thrown THEN e ELSE body.err

\* the catch block of the preflight (lines 135-149): the error it throws
PreflightCatch(preflightErr) ==
    LET data == extractRevertData(preflightErr) IN
    IF data # NoData THEN TryDecodeElseRaw(data, preflightErr)
    ELSE preflightErr

\* the catch block of write (lines 155-172): the error write rejects with
WriteCatch(e) ==
    LET data == extractRevertData(e) IN
    IF data # NoData THEN TryDecodeElseRaw(data, e)
    ELSE e


(***************************************************************************)
(* write(): lines 126-176 of useContract, with getWriteContract (74-86).   *)
(***************************************************************************)
NoOutcome == [ kind |-> "none", err |-> NoError, tx |-> 0 ]
Resolved(tx) == [ kind |-> "resolved", err |-> NoError, tx |-> tx ]
Rejected(e)  == [ kind |-> "rejected", err |-> e, tx |-> 0 ]

\* pc: "idle" not called yet, "acquire" awaiting getWriteContract(),
\* "preflight" awaiting staticCall, "submit" awaiting fn(...), "done".
\* pend: an error already thrown behind the pending await.
\* snap, log, sim, raw, sent record what happened, for the properties:
\* the signer as polled at the call, the network calls made in order,
\* the simulation's result, the error the failing step threw, the handle
\* the submission produced.
IdleWrite ==
    [ pc |-> "idle", client |-> 1, pend |-> NoError,
      snap |-> NoWallet, log |-> << >>, sim |-> "none", raw |-> NoError,
      sent |-> 0, out |-> NoOutcome ]

\* getWriteContract without its chain test (lines 78-80 left out)
getWriteContract_NoChainTest(w, c) ==
    IF ~isConnected(w) \/ ~HasProvider(w) THEN NotConnectedError
    ELSE IF w.provider = "bad" THEN InvalidProviderError
    ELSE NoError

\* getWriteContract with its two tests in the other order
getWriteContract_ChainFirst(w, c) ==
    IF chainId(w) # ConfigChainId(c) THEN WrongNetworkError(ConfigChainId(c))
    ELSE IF ~isConnected(w) \/ ~HasProvider(w) THEN NotConnectedError
    ELSE IF w.provider = "bad" THEN InvalidProviderError
    ELSE NoError

\* getWriteContract up to its first await: the error it throws, or NoError
\* when it goes on to ethersProvider.getSigner()
getWriteContract(w, c) ==
    IF ~isConnected(w) \/ ~HasProvider(w) THEN NotConnectedError
    ELSE IF chainId(w) # ConfigChainId(c) THEN WrongNetworkError(ConfigChainId(c))
    ELSE IF w.provider = "bad" THEN InvalidProviderError
    ELSE NoError

\* write's `finally` has run: the call has left through `throw`
WriteRejects(r, e) == [ r EXCEPT !.pc = "done", !.pend = NoError, !.out = Rejected(e) ]

\* write building its contract as read does: where getWriteContract would
\* throw, it goes to the fallback pool instead
WriteCalled_ViaPool(c, w) ==
    [ IdleWrite EXCEPT !.pc = "acquire", !.client = c, !.snap = w,
                       !.log = IF getWriteContract(w, c) = NoError
                                 THEN << "getSigner" >>
                               ELSE << "getRpcProvider" >> ]

\* lines 127-129: submitting.value = true; getWriteContract() runs to its await
WriteCalled(c, w) ==
    LET err == getWriteContract(w, c) IN
    [ IdleWrite EXCEPT !.pc = "acquire", !.client = c, !.pend = err, !.snap = w,
                       !.log = IF err = NoError THEN << "getSigner" >> ELSE << >> ]

\* line 129 resumes: getWriteContract threw, getSigner failed, or the contract
\* is there and fn.staticCall is called (lines 133-134)
SignerAcquired(r, ok, e) ==
    IF r.pend # NoError THEN WriteRejects([ r EXCEPT !.raw = r.pend ], WriteCatch(r.pend))
    ELSE IF ~ok THEN WriteRejects([ r EXCEPT !.raw = e ], WriteCatch(e))
    ELSE [ r EXCEPT !.pc = "preflight", !.log = Append(@, "staticCall") ]

\* a write that passes its simulation and then makes no submission of its
\* own, as if an overlapping write's submission stood for it
PreflightSettled_Deduplicated(r, ok, e) ==
    IF ~ok
      THEN WriteRejects([ r EXCEPT !.sim = "fail", !.raw = e ],
                        WriteCatch(PreflightCatch(e)))
    ELSE [ r EXCEPT !.pc = "done", !.sim = "ok", !.out = Resolved(0) ]

\* the preflight with its catch block swallowing the error instead of throwing
PreflightSettled_Swallowed(r, ok, e) ==
    IF ~ok
      THEN [ r EXCEPT !.pc = "submit", !.sim = "fail", !.raw = e,
                      !.log = Append(@, "send") ]
    ELSE [ r EXCEPT !.pc = "submit", !.sim = "ok", !.log = Append(@, "send") ]

\* line 134 resumes: the simulation passed and fn(...) is started (152-153),
\* or it failed and the two catch blocks run
PreflightSettled(r, ok, e) ==
    IF ~ok
      THEN WriteRejects([ r EXCEPT !.sim = "fail", !.raw = e ],
                        WriteCatch(PreflightCatch(e)))
    ELSE [ r EXCEPT !.pc = "submit", !.sim = "ok", !.log = Append(@, "send") ]

\* line 153 resumes: the handle is returned, or the catch block runs
SubmitSettled(r, ok, e, tx) ==
    IF ~ok THEN WriteRejects([ r EXCEPT !.raw = e ], WriteCatch(e))
    ELSE [ r EXCEPT !.pc = "done", !.sent = tx, !.out = Resolved(tx) ]

\* line 174, the `finally`: runs when the call leaves, by return or throw
Finally(r, flag) == IF r.pc = "done" THEN FALSE ELSE flag

\* write() going through fetchData as read() does: it takes a fetch token
\* and sets loading
WriteStart_ThroughFetchData(w) ==
    /\ wr[w].pc = "idle"
    /\ \A v \in Writes : v < w => wr[v].pc # "idle"
    /\ \E c \in Clients :
         /\ wr' = [ wr EXCEPT ![w] = WriteCalled(c, connectedWallet) ]
         /\ submitting' = [ submitting EXCEPT ![c] = TRUE ]
         /\ latestFetchId' = [ latestFetchId EXCEPT ![c] = @ + 1 ]
         /\ loading' = [ loading EXCEPT ![c] = TRUE ]
    /\ UNCHANGED << storeVars, calc, connectedWallet, txCount, rd, completed, providerCache, rpcVars >>

WriteStart(w) ==
    /\ wr[w].pc = "idle"
    /\ \A v \in Writes : v < w => wr[v].pc # "idle"
    /\ \E c \in Clients :
         /\ wr' = [ wr EXCEPT ![w] = WriteCalled(c, connectedWallet) ]
         /\ submitting' = [ submitting EXCEPT ![c] = TRUE ]
    /\ UNCHANGED << storeVars, calc, connectedWallet, txCount, readVars, providerCache, rpcVars >>

WriteAcquire(w) ==
    /\ wr[w].pc = "acquire"
    /\ \E ok \in BOOLEAN :
         LET r == SignerAcquired(wr[w], ok, SignerRejectedError) IN
         /\ wr' = [ wr EXCEPT ![w] = r ]
         /\ submitting' = [ submitting EXCEPT ![r.client] = Finally(r, @) ]
    /\ UNCHANGED << storeVars, calc, connectedWallet, txCount, readVars, providerCache, rpcVars >>

WritePreflight(w) ==
    /\ wr[w].pc = "preflight"
    /\ \E e \in { NoError } \cup RevertErrors :     \* NoError: it passes
         LET r == PreflightSettled(wr[w], e = NoError, e) IN
         /\ wr' = [ wr EXCEPT ![w] = r ]
         /\ submitting' = [ submitting EXCEPT ![r.client] = Finally(r, @) ]
    /\ UNCHANGED << storeVars, calc, connectedWallet, txCount, readVars, providerCache, rpcVars >>

WriteSubmit(w) ==
    /\ wr[w].pc = "submit"
    /\ \E e \in { NoError } \cup RevertErrors :     \* NoError: it is accepted
         LET r == SubmitSettled(wr[w], e = NoError, e, txCount + 1) IN
         /\ wr' = [ wr EXCEPT ![w] = r ]
         /\ txCount' = IF e = NoError THEN txCount + 1 ELSE txCount
         /\ submitting' = [ submitting EXCEPT ![r.client] = Finally(r, @) ]
    /\ UNCHANGED << storeVars, calc, connectedWallet, readVars, providerCache, rpcVars >>

\* the onboard state changes under the client: connect, disconnect, setChain
SignerChange ==
    /\ \E s \in WalletStates \ { connectedWallet } : connectedWallet' = s
    /\ UNCHANGED << storeVars, calc, writeVars, readVars, providerCache, rpcVars >>

(***************************************************************************)
(* utils/rpc-provider.ts.  A handle is a JsonRpcProvider object: the       *)
(* endpoint it was built from (its index in the chain's pool) and the call *)
(* that built it, which tells two objects of one endpoint apart.           *)
(***************************************************************************)
NoHandle == [ ep |-> 0, by |-> 0 ]
Handle(i, id) == [ ep |-> i, by |-> id ]

\* RPC_ENDPOINTS[chainId], an empty list standing for undefined
Endpoints(ch) == IF ch \in DOMAIN RPC_ENDPOINTS THEN RPC_ENDPOINTS[ch] ELSE << >>

\* getRpcEndpoints (lines 96-98)
getRpcEndpoints(ch) == IF ch \in DOMAIN RPC_ENDPOINTS THEN RPC_ENDPOINTS[ch] ELSE << >>

\* One getRpcProvider call.  pc: "idle", "probeCached" awaiting line 52,
\* "probePool" awaiting line 70, "returned", "threw".  h is the handle under
\* probe, idx the position of the loop of line 66.  probes records every
\* probe the call started, in order, and how it ended.
IdleCall ==
    [ pc |-> "idle", chain |-> NoChain, id |-> 0, h |-> NoHandle, idx |-> 0,
      probes |-> << >>, ret |-> NoHandle, err |-> NoError ]

Probe(h, cached) == [ h |-> h, cached |-> cached, res |-> "pending" ]
EndProbe(probes, ok) ==
    [ probes EXCEPT ![Len(probes)].res = IF ok THEN "ok" ELSE "fail" ]

\* the lookup without the test of lines 60-63: over an empty pool the loop
\* ends at once and line 81 throws
PoolBegin_NoEmptyCheck(g) ==
    IF Len(Endpoints(g.chain)) = 0
      THEN [ g EXCEPT !.pc = "threw", !.h = NoHandle,
                      !.err = AllEndpointsFailedError(g.chain) ]
    ELSE [ g EXCEPT !.pc = "probePool", !.idx = 1, !.h = Handle(1, g.id),
                    !.probes = Append(@, Probe(Handle(1, g.id), FALSE)) ]

\* lines 60-70: the pool is looked up and the loop starts on its first
\* endpoint, or the call throws for an empty pool
PoolBegin(g) ==
    IF Len(Endpoints(g.chain)) = 0
      THEN [ g EXCEPT !.pc = "threw", !.h = NoHandle,
                      !.err = NoEndpointsError(g.chain) ]
    ELSE [ g EXCEPT !.pc = "probePool", !.idx = 1, !.h = Handle(1, g.id),
                    !.probes = Append(@, Probe(Handle(1, g.id), FALSE)) ]

\* lines 47-52: the call runs to its first await
RpcBegin(id, ch, cache) ==
    LET g == [ IdleCall EXCEPT !.chain = ch, !.id = id ] IN
    IF cache[ch] # NoHandle
      THEN [ g EXCEPT !.pc = "probeCached", !.h = cache[ch],
                      !.probes = << Probe(cache[ch], TRUE) >> ]
    ELSE PoolBegin(g)

\* lines 52-58 resume: the cached handle is returned, or the chain's slot is
\* deleted and the pool is tried
CachedProbed(g, ok) ==
    IF ok THEN [ g EXCEPT !.pc = "returned", !.ret = g.h,
                          !.probes = EndProbe(@, TRUE) ]
    ELSE PoolBegin([ g EXCEPT !.probes = EndProbe(@, FALSE) ])

\* the probed handle written back to its slot when the probe succeeds
CacheAfterCachedProbe_Resets(g, ok, cache) ==
    IF ok THEN [ cache EXCEPT ![g.chain] = g.h ]
    ELSE [ cache EXCEPT ![g.chain] = NoHandle ]

\* the failed handle left in its slot
CacheAfterCachedProbe_Keeps(g, ok, cache) == cache

CacheAfterCachedProbe(g, ok, cache) ==
    IF ok THEN cache ELSE [ cache EXCEPT ![g.chain] = NoHandle ]

\* the loop giving up at the first endpoint that fails
PoolProbed_GivesUp(g, ok) ==
    IF ok THEN [ g EXCEPT !.pc = "returned", !.ret = g.h,
                          !.probes = EndProbe(@, TRUE) ]
    ELSE [ g EXCEPT !.pc = "threw", !.h = NoHandle,
                    !.probes = EndProbe(@, FALSE),
                    !.err = AllEndpointsFailedError(g.chain) ]

\* the loop stepping over an endpoint after a failure
PoolProbed_SkipsOne(g, ok) ==
    IF ok THEN [ g EXCEPT !.pc = "returned", !.ret = g.h,
                          !.probes = EndProbe(@, TRUE) ]
    ELSE IF g.idx + 1 < Len(Endpoints(g.chain))
      THEN [ g EXCEPT !.idx = g.idx + 2, !.h = Handle(g.idx + 2, g.id),
                      !.probes = Append(EndProbe(@, FALSE),
                                        Probe(Handle(g.idx + 2, g.id), FALSE)) ]
    ELSE [ g EXCEPT !.pc = "threw", !.h = NoHandle,
                    !.probes = EndProbe(@, FALSE),
                    !.err = AllEndpointsFailedError(g.chain) ]

\* the loop probing the same endpoint again after a failure
PoolProbed_Retries(g, ok) ==
    IF ok THEN [ g EXCEPT !.pc = "returned", !.ret = g.h,
                          !.probes = EndProbe(@, TRUE) ]
    ELSE [ g EXCEPT !.probes = Append(EndProbe(@, FALSE), Probe(g.h, FALSE)) ]

\* lines 70-78 resume: the endpoint's handle is cached and returned, or the
\* loop goes on to the next endpoint, or past the last one the call throws
PoolProbed(g, ok) ==
    IF ok THEN [ g EXCEPT !.pc = "returned", !.ret = g.h,
                          !.probes = EndProbe(@, TRUE) ]
    ELSE IF g.idx < Len(Endpoints(g.chain))
      THEN [ g EXCEPT !.idx = g.idx + 1, !.h = Handle(g.idx + 1, g.id),
                      !.probes = Append(EndProbe(@, FALSE),
                                        Probe(Handle(g.idx + 1, g.id), FALSE)) ]
    ELSE [ g EXCEPT !.pc = "threw", !.h = NoHandle,
                    !.probes = EndProbe(@, FALSE),
                    !.err = AllEndpointsFailedError(g.chain) ]

\* the endpoint's handle cached whatever its probe says
CacheAfterPoolProbe_Unprobed(g, ok, cache) == [ cache EXCEPT ![g.chain] = g.h ]

\* line 74: the handle is cached when its probe succeeded
CacheAfterPoolProbe(g, ok, cache) ==
    IF ok THEN [ cache EXCEPT ![g.chain] = g.h ] ELSE cache

\* a direct call of getRpcProvider(ch)
RpcStart(k) ==
    /\ rpc[k].pc = "idle"
    /\ \A j \in RpcCalls : j < k => rpc[j].pc # "idle"
    /\ \E ch \in ENABLED_CHAIN_IDS :
         rpc' = [ rpc EXCEPT ![k] = RpcBegin(k, ch, providerCache) ]
    /\ cleared' = FALSE
    /\ UNCHANGED << storeVars, calc, connectedWallet, writeVars, readVars, providerCache >>

RpcProbeCached(k) ==
    /\ rpc[k].pc = "probeCached"
    /\ \E ok \in BOOLEAN :
         /\ rpc' = [ rpc EXCEPT ![k] = CachedProbed(rpc[k], ok) ]
         /\ providerCache' = CacheAfterCachedProbe(rpc[k], ok, providerCache)
    /\ UNCHANGED << storeVars, calc, connectedWallet, writeVars, readVars, cleared >>

RpcProbePool(k) ==
    /\ rpc[k].pc = "probePool"
    /\ \E ok \in BOOLEAN :
         /\ rpc' = [ rpc EXCEPT ![k] = PoolProbed(rpc[k], ok) ]
         /\ providerCache' = CacheAfterPoolProbe(rpc[k], ok, providerCache)
    /\ UNCHANGED << storeVars, calc, connectedWallet, writeVars, readVars, cleared >>

\* clearProviderCache (lines 87-89): every slot is emptied
ClearProviderCache ==
    /\ providerCache' = [ ch \in ENABLED_CHAIN_IDS |-> NoHandle ]
    /\ cleared' = TRUE
    /\ UNCHANGED << storeVars, calc, connectedWallet, writeVars, readVars, rpc >>

NextRpc ==
    \/ \E k \in RpcCalls : RpcStart(k)
    \/ \E k \in RpcCalls : RpcProbeCached(k)
    \/ \E k \in RpcCalls : RpcProbePool(k)
    \/ ClearProviderCache

(***************************************************************************)
(* read(): fetchData (lines 92-115) around getReadContract (57-68) and the *)
(* contract call (118-123).                                                *)
(***************************************************************************)
NoResult == [ kind |-> "none", err |-> NoError, val |-> 0 ]
Value(v) == [ kind |-> "resolved", err |-> NoError, val |-> v ]
Failure(e) == [ kind |-> "rejected", err |-> e, val |-> 0 ]

\* pc: "idle", "resolve" inside getRpcProvider (g is that call), "invoke"
\* awaiting contract[method](...), "settled" the fetcher has ended (fres) and
\* fetchData has not resumed yet, "done".  fetchId is fetchData's local;
\* conn is the connection of the contract: "wallet", "rpc" or "none".
\* fresh records, for the properties, whether fetchId was latestFetchId when
\* fetchData resumed.
IdleRead ==
    [ pc |-> "idle", client |-> 1, fetchId |-> 0, g |-> IdleCall,
      conn |-> "none", fres |-> NoResult, out |-> NoResult, fresh |-> FALSE ]

\* line 58 without the comparison of the chains
UsesWallet_AnyChain(w, c) ==
    /\ isConnected(w)
    /\ HasProvider(w)
    /\ w.provider # "bad"

\* line 58 and the try of lines 59-64: the wallet's provider is used
UsesWallet(w, c) ==
    /\ isConnected(w)
    /\ chainId(w) = ConfigChainId(c)
    /\ HasProvider(w)
    /\ w.provider # "bad"

\* fetchData without the check of lines 99-101: a stale value is returned
fetchData_NoStaleCheck(fres, fetchId, latest) ==
    IF fres.kind = "resolved" THEN fres
    ELSE IF fetchId = latest THEN fres ELSE Failure(StaleError)

\* fetchData whose catch block always rethrows what it caught
fetchData_Rethrows(fres, fetchId, latest) ==
    IF fres.kind = "resolved"
      THEN IF fetchId # latest THEN Failure(StaleError) ELSE fres
    ELSE fres

\* lines 95-109: what fetchData throws or returns once the fetcher has ended
\* with fres, for its fetchId and the instance's latestFetchId
fetchData(fres, fetchId, latest) ==
    IF fres.kind = "resolved"
      THEN IF fetchId # latest THEN Failure(StaleError) ELSE fres
    ELSE IF fetchId = latest THEN fres ELSE Failure(StaleError)

\* the `finally` without its test: any completion clears loading
LoadingAfter_Unguarded(flag, fetchId, latest) == FALSE

\* lines 110-114, the `finally`
LoadingAfter(flag, fetchId, latest) == IF fetchId = latest THEN FALSE ELSE flag

\* fetchData resumes on read r with the fetcher's result fres
Completed(r, fres, latest) ==
    [ r EXCEPT !.pc = "done", !.fres = fres,
               !.out = fetchData(fres, r.fetchId, latest),
               !.fresh = (r.fetchId = latest) ]

\* getReadContract's rpc call g has moved: the contract call starts on the
\* handle it returned, or the fetcher has ended with the error it threw
Resolving(r, g) ==
    IF g.pc = "returned" THEN [ r EXCEPT !.pc = "invoke", !.g = g, !.conn = "rpc" ]
    ELSE [ r EXCEPT !.pc = "resolve", !.g = g ]

\* a read queued behind the earlier fetches of its instance instead of started
ReadCalled_Queued(r, c, w, cache, fetchId) ==
    [ IdleRead EXCEPT !.client = c, !.fetchId = fetchId,
                      !.pc = IF fetchId > 1 THEN "queued" ELSE "invoke",
                      !.conn = "wallet" ]

\* a cache of each instance's own: only the first instance sees the handles
\* that are cached
ReadCalled_PrivateCache(r, c, w, cache, fetchId) ==
    LET base == [ IdleRead EXCEPT !.client = c, !.fetchId = fetchId ]
        own == [ ch \in DOMAIN cache |-> IF c = 1 THEN cache[ch] ELSE NoHandle ]
        g == RpcBegin(r, ConfigChainId(c), own)
    IN  IF UsesWallet(w, c) THEN [ base EXCEPT !.pc = "invoke", !.conn = "wallet" ]
        ELSE IF g.pc = "threw"
          THEN [ base EXCEPT !.pc = "settled", !.g = g, !.fres = Failure(g.err) ]
        ELSE Resolving(base, g)

\* lines 93-96 with getReadContract up to its first await
ReadCalled(r, c, w, cache, fetchId) ==
    LET base == [ IdleRead EXCEPT !.client = c, !.fetchId = fetchId ]
        g == RpcBegin(r, ConfigChainId(c), cache)
    IN  IF UsesWallet(w, c) THEN [ base EXCEPT !.pc = "invoke", !.conn = "wallet" ]
        ELSE IF g.pc = "threw"
          THEN [ base EXCEPT !.pc = "settled", !.g = g, !.fres = Failure(g.err) ]
        ELSE Resolving(base, g)

\* the counter left as it is: every fetch gets the same token
NextFetchId_NoIncrement(latest) == latest

\* line 93, `++latestFetchId`: the counter's next value, which is both the
\* token of the fetch and the new latestFetchId
NextFetchId(latest) == latest + 1

\* latestFetchId and loading kept once for the module instead of once for
\* each instance
ReadStartOn_SharedCounter(r, c) ==
    /\ rd[r].pc = "idle"
    /\ \A q \in Reads : q < r => rd[q].pc # "idle"
    /\ latestFetchId' = [ d \in DOMAIN latestFetchId |->
                             NextFetchId(latestFetchId[c]) ]
    /\ loading' = [ d \in DOMAIN loading |-> TRUE ]
    /\ rd' = [ rd EXCEPT ![r] = ReadCalled(r, c, connectedWallet, providerCache,
                                           NextFetchId(latestFetchId[c])) ]
    /\ cleared' = (cleared /\ rd'[r].conn = "wallet")
    /\ UNCHANGED << storeVars, calc, connectedWallet, writeVars, completed, providerCache, rpc >>

\* read() is called on instance c
ReadStartOn(r, c) ==
    /\ rd[r].pc = "idle"
    /\ \A q \in Reads : q < r => rd[q].pc # "idle"
    /\ latestFetchId' = [ latestFetchId EXCEPT ![c] = NextFetchId(@) ]
    /\ loading' = [ loading EXCEPT ![c] = TRUE ]
    /\ rd' = [ rd EXCEPT ![r] = ReadCalled(r, c, connectedWallet, providerCache,
                                           NextFetchId(latestFetchId[c])) ]
    /\ cleared' = (cleared /\ rd'[r].conn = "wallet")
    /\ UNCHANGED << storeVars, calc, connectedWallet, writeVars, completed, providerCache, rpc >>

ReadStart(r) == \E c \in Clients : ReadStartOn(r, c)

\* read() is called on one of the instances that have the same config
ReadStartShared(r) == \E c \in SharedClients : ReadStartOn(r, c)

\* what a read leaves behind when fetchData resumes on it
ReadEnds(r, fres) ==
    LET c == rd[r].client
        done == Completed(rd[r], fres, latestFetchId[c])
    IN  /\ rd' = [ rd EXCEPT ![r] = done ]
        /\ loading' = [ loading EXCEPT ![c] = LoadingAfter(@, rd[r].fetchId, latestFetchId[c]) ]
        /\ completed' = Append(completed, r)
        /\ UNCHANGED latestFetchId

ReadMoves(r, g) ==
    IF g.pc = "threw" THEN ReadEnds(r, Failure(g.err))
    ELSE /\ rd' = [ rd EXCEPT ![r] = Resolving(rd[r], g) ]
         /\ UNCHANGED << loading, latestFetchId, completed >>

ReadProbeCached(r) ==
    /\ rd[r].pc = "resolve" /\ rd[r].g.pc = "probeCached"
    /\ \E ok \in BOOLEAN :
         /\ ReadMoves(r, CachedProbed(rd[r].g, ok))
         /\ providerCache' = CacheAfterCachedProbe(rd[r].g, ok, providerCache)
    /\ UNCHANGED << storeVars, calc, connectedWallet, writeVars, rpcVars >>

ReadProbePool(r) ==
    /\ rd[r].pc = "resolve" /\ rd[r].g.pc = "probePool"
    /\ \E ok \in BOOLEAN :
         /\ ReadMoves(r, PoolProbed(rd[r].g, ok))
         /\ providerCache' = CacheAfterPoolProbe(rd[r].g, ok, providerCache)
    /\ UNCHANGED << storeVars, calc, connectedWallet, writeVars, rpcVars >>

\* line 121 resumes with the reply, or with the error of the call
ReadInvoke(r) ==
    /\ rd[r].pc = "invoke"
    /\ \E ok \in BOOLEAN :
         ReadEnds(r, IF ok THEN Value(r) ELSE Failure(CallError))
    /\ UNCHANGED << storeVars, calc, connectedWallet, writeVars, providerCache, rpcVars >>

\* line 96 resumes after getRpcProvider threw before its first await
ReadSettled(r) ==
    /\ rd[r].pc = "settled"
    /\ ReadEnds(r, rd[r].fres)
    /\ UNCHANGED << storeVars, calc, connectedWallet, writeVars, providerCache, rpcVars >>

NextRead ==
    \/ \E r \in Reads : ReadStart(r)
    \/ \E r \in Reads : ReadProbeCached(r)
    \/ \E r \in Reads : ReadProbePool(r)
    \/ \E r \in Reads : ReadInvoke(r)
    \/ \E r \in Reads : ReadSettled(r)
    \/ SignerChange

\* reads of two instances on one chain while no wallet is connected, so
\* that every read goes to getRpcProvider, with clearProviderCache
NextShared ==
    \/ \E r \in Reads : ReadStartShared(r)
    \/ \E r \in Reads : ReadProbeCached(r)
    \/ \E r \in Reads : ReadProbePool(r)
    \/ \E r \in Reads : ReadInvoke(r)
    \/ ClearProviderCache

(***************************************************************************)
(* The conversion helpers (lines 18-44) and extractRevertData (47-50) as   *)
(* callers use them.  A JavaScript value is its typeof tag with the        *)
(* integer, the text or the truth value it holds; a number that is no      *)
(* integer keeps its text ("NaN", "1.5") in s.                             *)
(***************************************************************************)
JsValue(t, n, s, b) == [ t |-> t, n |-> n, s |-> s, b |-> b ]
Num(n)     == JsValue("number", n, "", FALSE)
NaN        == JsValue("number", 0, "NaN", FALSE)
OneAndHalf == JsValue("number", 1, "1.5", FALSE)
Big(n)     == JsValue("bigint", n, "", FALSE)
Bool(b)    == JsValue("boolean", 0, "", b)
Str(s)     == JsValue("string", 0, s, FALSE)
Null       == JsValue("object", 0, "null", FALSE)
Undefined  == JsValue("undefined", 0, "", FALSE)
Obj        == JsValue("object", 0, "{}", FALSE)

IsInteger(v) == v.t = "number" /\ v.s = ""

\* how a call ends: with a value, or with the exception it throws
Returned(v)  == [ threw |-> FALSE, val |-> v ]
Thrown(name) == [ threw |-> TRUE, val |-> Str(name) ]

\* Number(s) of a string
StringToNumber(s) ==
    IF s = "42" THEN Num(42)
    ELSE IF s = "1" THEN Num(1)
    ELSE IF s = "" THEN Num(0)
    ELSE IF s = "1.5" THEN OneAndHalf
    ELSE NaN

\* BigInt(s) of a string: a SyntaxError for what is no integer literal
StringToBigInt(s) ==
    IF s = "42" THEN Returned(Big(42))
    ELSE IF s = "1" THEN Returned(Big(1))
    ELSE IF s = "" THEN Returned(Big(0))
    ELSE Thrown("SyntaxError")

\* BigInt(v) of a number: a RangeError for what is no integer
NumberToBigInt(v) ==
    IF IsInteger(v) THEN Returned(Big(v.n)) ELSE Thrown("RangeError")

\* lines 20-27
asBigInt(v, fallback) ==
    IF v.t = "bigint" THEN Returned(v)
    ELSE IF v.t = "number" THEN NumberToBigInt(v)
    ELSE IF v.t = "string"
      THEN IF StringToBigInt(v.s).threw THEN Returned(fallback)
           ELSE StringToBigInt(v.s)
    ELSE Returned(fallback)

\* lines 28-34
asBoolean(v, fallback) ==
    IF v.t = "boolean" THEN Returned(v)
    ELSE IF v.t = "bigint" THEN Returned(Bool(v.n # 0))
    ELSE IF v.t = "number" THEN Returned(Bool(~(IsInteger(v) /\ v.n = 0)))
    ELSE IF v.t = "string" THEN Returned(Bool(v.s \in { "true", "1" }))
    ELSE Returned(fallback)

\* lines 35-40
asNumber(v, fallback) ==
    IF v.t = "number" THEN Returned(v)
    ELSE IF v.t = "bigint" THEN Returned(Num(v.n))
    ELSE IF v.t = "string" THEN Returned(StringToNumber(v.s))
    ELSE Returned(fallback)

\* lines 41-44
asString(v, fallback) ==
    IF v.t = "string" THEN Returned(v) ELSE Returned(fallback)

Helpers == { "asBigInt", "asBoolean", "asNumber", "asString" }

ApplyHelper(fn, v, fallback) ==
    IF fn = "asBigInt" THEN asBigInt(v, fallback)
    ELSE IF fn = "asBoolean" THEN asBoolean(v, fallback)
    ELSE IF fn = "asNumber" THEN asNumber(v, fallback)
    ELSE asString(v, fallback)

\* the values callers pass: one or more of every kind
JsValues ==
    { Num(0), Num(42), OneAndHalf, NaN, Big(0), Big(42), Bool(TRUE), Bool(FALSE),
      Str("42"), Str("1"), Str("1.5"), Str("true"), Str("abc"), Str(""),
      Null, Undefined, Obj }

\* the default of each helper's second parameter, and another value
Fallbacks(fn) ==
    IF fn = "asBigInt" THEN { Big(0), Big(42) }
    ELSE IF fn = "asBoolean" THEN { Bool(FALSE), Bool(TRUE) }
    ELSE IF fn = "asNumber" THEN { Num(0), Num(42) }
    ELSE { Str(""), Str("abc") }

\* the error objects extractRevertData is given: each of the three fields
\* absent or holding a payload
Payloads ==
    { NoData, ErrorString("Paused"), CustomError("TooManyEpochs"),
      CustomError("0xdeadbeef") }
ErrorShapes ==
    { MkError("execution reverted", d, ed, ied) :
        d \in Payloads, ed \in Payloads, ied \in Payloads }

NoCalc ==
    [ fn |-> "none", arg |-> Undefined, fallback |-> Undefined,
      out |-> Returned(Undefined), err |-> NoError, data |-> NoData ]

HelperCalled ==
    /\ \E fn \in Helpers, v \in JsValues :
         \E fallback \in Fallbacks(fn) :
            calc' = [ NoCalc EXCEPT !.fn = fn, !.arg = v, !.fallback = fallback,
                                    !.out = ApplyHelper(fn, v, fallback) ]
    /\ UNCHANGED << storeVars, connectedWallet, writeVars, readVars, providerCache,
                    rpcVars >>

ExtractCalled ==
    /\ \E e \in ErrorShapes :
         calc' = [ NoCalc EXCEPT !.fn = "extractRevertData", !.err = e,
                                 !.data = extractRevertData(e) ]
    /\ UNCHANGED << storeVars, connectedWallet, writeVars, readVars, providerCache,
                    rpcVars >>

NextHelpers == HelperCalled \/ ExtractCalled

(***************************************************************************)
(* stores/web3.ts and plugins/web3Onboard.client.ts.  The store's refs are *)
(* one record; the onboard library is the environment: it delivers state   *)
(* updates to the subscription of init and settles the promises the store  *)
(* awaits.  A wallet of the onboard state is its label and its chain.      *)
(***************************************************************************)
Labels == { "MetaMask", "WalletConnect" }
NoLabel == ""
StoreChains == { 56, 11155111 }

WalletState(l, ch) == [ label |-> l, chain |-> ch ]

\* onboardState: null, or an AppState with its wallets, the last connected
\* first
NoAppState == [ present |-> FALSE, wallets |-> << >> ]
AppState(ws) == [ present |-> TRUE, wallets |-> ws ]

\* onboardState.wallets.map((w) => w.label)
MapLabels(ws) == [ i \in 1 .. Len(ws) |-> ws[i].label ]

\* the lists of labels an onboard state can have
LabelLists ==
    { << >>, << "MetaMask" >>, << "WalletConnect" >>,
      << "MetaMask", "WalletConnect" >>, << "WalletConnect", "MetaMask" >> }

\* JSON.stringify of a list of labels
JSONstringify(labels) ==
    CASE labels = << >> -> "[]"
      [] labels = << "MetaMask" >> -> "[\"MetaMask\"]"
      [] labels = << "WalletConnect" >> -> "[\"WalletConnect\"]"
      [] labels = << "MetaMask", "WalletConnect" >> -> "[\"MetaMask\",\"WalletConnect\"]"
      [] OTHER -> "[\"WalletConnect\",\"MetaMask\"]"

\* JSON.parse: the list a text stands for, or an exception
JSONparse(text) ==
    IF \E l \in LabelLists : JSONstringify(l) = text
      THEN [ ok |-> TRUE, val |-> CHOOSE l \in LabelLists : JSONstringify(l) = text ]
    ELSE [ ok |-> FALSE, val |-> << >> ]

\* localStorage.getItem of a key that was never set
NotStored == ""

\* lines 7-22: the store as its setup function leaves it
NewStore(stored) ==
    [ onboard |-> 0, onboardState |-> NoAppState, isConnecting |-> FALSE,
      alreadyConnectedWallets |->
          IF stored # NotStored /\ JSONparse(stored).ok
            THEN JSONparse(stored).val ELSE << >> ]

\* wallets and connectedWallet (lines 25-26) as the contract client sees them
wallets(s) == IF s.onboardState.present THEN s.onboardState.wallets ELSE << >>
WalletOf(s) ==
    IF wallets(s) = << >> THEN NoWallet
    ELSE [ present |-> TRUE, chain |-> wallets(s)[1].chain, provider |-> "ok" ]

\* the list kept in memory but not written to localStorage
updateAlreadyConnectedWallets_NoPersist(s, stored) ==
    IF ~s.onboardState.present THEN [ store |-> s, stored |-> stored ]
    ELSE [ store |-> [ s EXCEPT !.alreadyConnectedWallets =
                                   MapLabels(s.onboardState.wallets) ],
           stored |-> stored ]

\* lines 36-43
updateAlreadyConnectedWallets(s, stored) ==
    IF ~s.onboardState.present THEN [ store |-> s, stored |-> stored ]
    ELSE [ store |-> [ s EXCEPT !.alreadyConnectedWallets =
                                   MapLabels(s.onboardState.wallets) ],
           stored |-> JSONstringify(MapLabels(s.onboardState.wallets)) ]

\* What the page has done since the store was set up: the Onboard()
\* instances and the subscriptions created, the init calls and what the
\* last one returned, whether a state update has been delivered, and the
\* plugin's run: the list it found and the labels it tried to connect.
NewPage ==
    [ instances |-> 0, subscriptions |-> 0, inits |-> 0, initRet |-> 0,
      updated |-> FALSE, pluginRan |-> FALSE, listAtCheck |-> << >>,
      attempts |-> << >> ]

\* init without the test of lines 46-49
init_NoGuard(s, p) ==
    [ store |-> [ s EXCEPT !.onboard = p.instances + 1,
                           !.onboardState = AppState(<< >>) ],
      page  |-> [ p EXCEPT !.instances = @ + 1, !.subscriptions = @ + 1,
                           !.inits = @ + 1, !.initRet = p.instances + 1 ] ]

\* lines 45-63: an Onboard instance is its number; a new instance has no
\* wallets yet
init(s, p) ==
    IF s.onboard # 0
      THEN [ store |-> s,
             page  |-> [ p EXCEPT !.inits = @ + 1, !.initRet = s.onboard ] ]
    ELSE [ store |-> [ s EXCEPT !.onboard = p.instances + 1,
                                !.onboardState = AppState(<< >>) ],
           page  |-> [ p EXCEPT !.instances = @ + 1, !.subscriptions = @ + 1,
                                !.inits = @ + 1, !.initRet = p.instances + 1 ] ]

NotInitializedError == NewError("Onboard not initialized")
OnboardError == NewError("User rejected the request")

\* A call of one of the store's async actions.  pc: "idle", "await" on the
\* onboard promise (or the timer of line 93), "done".  label: the wallet a
\* pending disconnect is for, or the autoSelect label.  caught: the caller has a
\* .catch on the promise.
Pending      == [ kind |-> "pending", err |-> NoError ]
Fulfilled    == [ kind |-> "fulfilled", err |-> NoError ]
RejectedWith(e) == [ kind |-> "rejected", err |-> e ]

IdleStoreCall ==
    [ fn |-> "none", pc |-> "idle", label |-> NoLabel, caught |-> FALSE,
      out |-> Pending ]

StoreCall(fn, label, caught) ==
    [ IdleStoreCall EXCEPT !.fn = fn, !.pc = "await", !.label = label,
                           !.caught = caught ]

\* the guard of lines 66, 80, 89 and 124
ThrowsNotInitialized(c) ==
    [ c EXCEPT !.pc = "done", !.out = RejectedWith(NotInitializedError) ]

\* lines 65-67: connectWallet up to its await
connectWallet(s, label, caught) ==
    IF s.onboard = 0
      THEN [ store |-> s,
             call  |-> ThrowsNotInitialized(StoreCall("connectWallet", label, caught)) ]
    ELSE [ store |-> [ s EXCEPT !.isConnecting = TRUE ],
           call  |-> StoreCall("connectWallet", label, caught) ]

\* lines 79-83: disconnectWallet up to its await; arg is the wallet passed,
\* NoLabel for none
disconnectWallet(s, arg) ==
    LET w == IF arg # NoLabel THEN arg
             ELSE IF wallets(s) # << >> THEN wallets(s)[1].label ELSE NoLabel
        c == StoreCall("disconnectWallet", w, FALSE)
    IN  IF s.onboard = 0 THEN ThrowsNotInitialized([ c EXCEPT !.label = NoLabel ])
        ELSE IF w = NoLabel THEN [ c EXCEPT !.pc = "done", !.out = Fulfilled ]
        ELSE c

\* lines 123-125 and 88-93: setChain and openAccountCenter up to their await
setChain(s) ==
    IF s.onboard = 0 THEN ThrowsNotInitialized(StoreCall("setChain", NoLabel, FALSE))
    ELSE StoreCall("setChain", NoLabel, FALSE)

openAccountCenter(s) ==
    IF s.onboard = 0
      THEN ThrowsNotInitialized(StoreCall("openAccountCenter", NoLabel, FALSE))
    ELSE StoreCall("openAccountCenter", NoLabel, FALSE)

\* the promise a call awaits has settled
SettledCall(c, ok) ==
    [ c EXCEPT !.pc = "done",
               !.out = IF ok THEN Fulfilled ELSE RejectedWith(OnboardError) ]

\* the onboard states that can follow one with wallets ws: a wallet is
\* connected or selected again and moves to the front, a wallet is
\* disconnected, or the first wallet changes its chain
Without(ws, l) == SelectSeq(ws, LAMBDA w : w.label # l)
NextWallets(ws) ==
    ({ << WalletState(l, ch) >> \o Without(ws, l) : l \in Labels, ch \in StoreChains }
       \cup { Without(ws, l) : l \in Labels })
    \ { ws }

StoreCalls == 1 .. MaxStoreCalls

\* the callers of the store: a component calls init
StoreInit ==
    /\ page.inits < MaxInits
    /\ LET r == init(web3Store, page) IN
         /\ web3Store' = r.store
         /\ page' = r.page
    /\ UNCHANGED << localStorage, storeCalls, connectedWallet, calc, writeVars,
                    readVars, providerCache, rpcVars >>

\* lines 57-60, the subscription's callback: onboard delivers a state
\* update
OnboardUpdate ==
    /\ page.subscriptions > 0
    /\ \E ws \in NextWallets(wallets(web3Store)) :
         LET r == updateAlreadyConnectedWallets(
                      [ web3Store EXCEPT !.onboardState = AppState(ws) ],
                      localStorage)
         IN  /\ web3Store' = r.store
             /\ localStorage' = r.stored
             /\ connectedWallet' = WalletOf(r.store)
    /\ page' = [ page EXCEPT !.updated = TRUE ]
    /\ UNCHANGED << storeCalls, calc, writeVars, readVars, providerCache, rpcVars >>

\* the store's actions are called in the order of their numbers
CanCall(k) ==
    /\ storeCalls[k].pc = "idle"
    /\ \A j \in StoreCalls : j < k => storeCalls[j].pc # "idle"

ConnectWalletCalled(k) ==
    /\ CanCall(k)
    /\ LET r == connectWallet(web3Store, NoLabel, FALSE) IN
         /\ web3Store' = r.store
         /\ storeCalls' = [ storeCalls EXCEPT ![k] = r.call ]
    /\ UNCHANGED << localStorage, page, connectedWallet, calc, writeVars,
                    readVars, providerCache, rpcVars >>

\* lines 69-76 resume: the wallets are returned or the error is rethrown,
\* and the `finally` runs
ConnectWalletSettled(k) ==
    /\ storeCalls[k].fn = "connectWallet" /\ storeCalls[k].pc = "await"
    /\ \E ok \in BOOLEAN :
         storeCalls' = [ storeCalls EXCEPT ![k] = SettledCall(@, ok) ]
    /\ web3Store' = [ web3Store EXCEPT !.isConnecting = FALSE ]     \* line 75
    /\ UNCHANGED << localStorage, page, connectedWallet, calc, writeVars,
                    readVars, providerCache, rpcVars >>

DisconnectWalletCalled(k) ==
    /\ CanCall(k)
    /\ \E arg \in { NoLabel } \cup Labels :
         storeCalls' = [ storeCalls EXCEPT ![k] = disconnectWallet(web3Store, arg) ]
    /\ UNCHANGED << web3Store, localStorage, page, connectedWallet, calc,
                    writeVars, readVars, providerCache, rpcVars >>

\* lines 83-84 resume: updateAlreadyConnectedWallets runs, unless onboard
\* rejected
DisconnectWalletSettled(k) ==
    /\ storeCalls[k].fn = "disconnectWallet" /\ storeCalls[k].pc = "await"
    /\ \E ok \in BOOLEAN :
         LET r == IF ok THEN updateAlreadyConnectedWallets(web3Store, localStorage)
                  ELSE [ store |-> web3Store, stored |-> localStorage ]
         IN  /\ storeCalls' = [ storeCalls EXCEPT
                                  ![k] = SettledCall([ @ EXCEPT !.label = NoLabel ], ok) ]
             /\ web3Store' = r.store
             /\ localStorage' = r.stored
    /\ UNCHANGED << page, connectedWallet, calc, writeVars, readVars,
                    providerCache, rpcVars >>

SetChainCalled(k) ==
    /\ CanCall(k)
    /\ storeCalls' = [ storeCalls EXCEPT ![k] = setChain(web3Store) ]
    /\ UNCHANGED << web3Store, localStorage, page, connectedWallet, calc,
                    writeVars, readVars, providerCache, rpcVars >>

\* line 125 resumes
SetChainSettled(k) ==
    /\ storeCalls[k].fn = "setChain" /\ storeCalls[k].pc = "await"
    /\ \E ok \in BOOLEAN :
         storeCalls' = [ storeCalls EXCEPT ![k] = SettledCall(@, ok) ]
    /\ UNCHANGED << web3Store, localStorage, page, connectedWallet, calc,
                    writeVars, readVars, providerCache, rpcVars >>

OpenAccountCenterCalled(k) ==
    /\ CanCall(k)
    /\ storeCalls' = [ storeCalls EXCEPT ![k] = openAccountCenter(web3Store) ]
    /\ UNCHANGED << web3Store, localStorage, page, connectedWallet, calc,
                    writeVars, readVars, providerCache, rpcVars >>

\* lines 93-120 resume after the timer: the account center's triggers are
\* clicked, which changes nothing in the store
OpenAccountCenterSettled(k) ==
    /\ storeCalls[k].fn = "openAccountCenter" /\ storeCalls[k].pc = "await"
    /\ storeCalls' = [ storeCalls EXCEPT ![k] = SettledCall(@, TRUE) ]
    /\ UNCHANGED << web3Store, localStorage, page, connectedWallet, calc,
                    writeVars, readVars, providerCache, rpcVars >>

\* plugin lines 72-74: the labels the plugin connects
AutoConnectLabels(list) ==
    IF Len(list) > 0 /\ list[1] # NoLabel THEN << list[1] >> ELSE << >>

\* plugin lines 75-79: connectWallet with autoSelect and a .catch
AutoConnect(s, label) == connectWallet(s, label, TRUE)

\* the plugin (lines 24-82) runs when the page starts: init, then the
\* auto-connect of lines 71-81
PluginRun ==
    /\ ~page.pluginRan
    /\ \A k \in StoreCalls : storeCalls[k].pc = "idle"
    /\ LET r == init(web3Store, page)
           list == r.store.alreadyConnectedWallets
           todo == AutoConnectLabels(list)
           c == AutoConnect(r.store, todo[1])
       IN  /\ page' = [ r.page EXCEPT !.pluginRan = TRUE, !.listAtCheck = list,
                                      !.attempts = todo ]
           /\ IF todo = << >>
                THEN /\ web3Store' = r.store
                     /\ UNCHANGED storeCalls
              ELSE /\ web3Store' = c.store
                   /\ storeCalls' = [ storeCalls EXCEPT ![1] = c.call ]
    /\ UNCHANGED << localStorage, connectedWallet, calc, writeVars, readVars,
                    providerCache, rpcVars >>

\* the page is loaded again: the store is set up anew from localStorage
Restart ==
    /\ page # NewPage
    /\ web3Store' = NewStore(localStorage)
    /\ storeCalls' = [ k \in StoreCalls |-> IdleStoreCall ]
    /\ page' = NewPage
    /\ connectedWallet' = NoWallet
    /\ UNCHANGED << localStorage, calc, writeVars, readVars, providerCache, rpcVars >>

NextStore ==
    \/ StoreInit
    \/ PluginRun
    \/ OnboardUpdate
    \/ \E k \in StoreCalls : ConnectWalletCalled(k)
    \/ \E k \in StoreCalls : ConnectWalletSettled(k)
    \/ \E k \in StoreCalls : DisconnectWalletCalled(k)
    \/ \E k \in StoreCalls : DisconnectWalletSettled(k)
    \/ \E k \in StoreCalls : SetChainCalled(k)
    \/ \E k \in StoreCalls : SetChainSettled(k)
    \/ \E k \in StoreCalls : OpenAccountCenterCalled(k)
    \/ \E k \in StoreCalls : OpenAccountCenterSettled(k)
    \/ Restart

(***************************************************************************)
(* Initial state and the specifications.                                   *)
(***************************************************************************)

Init ==
    /\ connectedWallet = NoWallet
    /\ submitting = [ c \in Instances |-> FALSE ]
    /\ wr = [ w \in Writes |-> IdleWrite ]
    /\ txCount = 0
    /\ loading = [ c \in Instances |-> FALSE ]
    /\ latestFetchId = [ c \in Instances |-> 0 ]
    /\ rd = [ r \in Reads |-> IdleRead ]
    /\ completed = << >>
    /\ providerCache = [ ch \in ENABLED_CHAIN_IDS |-> NoHandle ]
    /\ rpc = [ k \in RpcCalls |-> IdleCall ]
    /\ cleared = FALSE
    /\ calc = NoCalc
    /\ localStorage = NotStored
    /\ web3Store = NewStore(NotStored)
    /\ storeCalls = [ k \in StoreCalls |-> IdleStoreCall ]
    /\ page = NewPage

NextWrite ==
    \/ \E w \in Writes : WriteStart(w)
    \/ \E w \in Writes : WriteAcquire(w)
    \/ \E w \in Writes : WritePreflight(w)
    \/ \E w \in Writes : WriteSubmit(w)
    \/ SignerChange

SpecWrite == Init /\ [][NextWrite]_vars

SpecRead == Init /\ [][NextRead]_vars

SpecRpc == Init /\ [][NextRpc]_vars

\* the getRpcProvider calls alone
NextCalls ==
    \/ \E k \in RpcCalls : RpcStart(k)
    \/ \E k \in RpcCalls : RpcProbeCached(k)
    \/ \E k \in RpcCalls : RpcProbePool(k)

\* getRpcProvider with every probe resolving in the end: a call that awaits
\* getBlockNumber (line 52 or line 70) is resumed
SpecCallsFair ==
    /\ Init /\ [][NextCalls]_vars
    /\ \A k \in RpcCalls : WF_vars(RpcProbeCached(k)) /\ WF_vars(RpcProbePool(k))

SpecHelpers == Init /\ [][NextHelpers]_vars

SpecShared == Init /\ [][NextShared]_vars

SpecStore == Init /\ [][NextStore]_vars

\* a page whose components read and write at once: two read() calls and a
\* write() interleaved in every order, on the same instance or on two
NextPage ==
    \/ \E r \in PageReads : ReadStart(r)
    \/ \E r \in PageReads : ReadProbeCached(r)
    \/ \E r \in PageReads : ReadProbePool(r)
    \/ \E r \in PageReads : ReadInvoke(r)
    \/ \E r \in PageReads : ReadSettled(r)
    \/ \E w \in PageWrites : WriteStart(w)
    \/ \E w \in PageWrites : WriteAcquire(w)
    \/ \E w \in PageWrites : WritePreflight(w)
    \/ \E w \in PageWrites : WriteSubmit(w)
    \/ SignerChange

SpecPage == Init /\ [][NextPage]_vars

\* The whole client.  Writes share no state with reads and rpc calls but
\* the signer, which none of them changes, so each part is checked under
\* its own specification above.
Next == NextWrite \/ NextRead \/ NextRpc \/ NextHelpers \/ NextShared \/ NextPage
          \/ NextCalls \/ NextStore

Spec == Init /\ [][Next]_vars


(***************************************************************************)
(* Properties of write().                                                  *)
(***************************************************************************)
Started(r)    == r.pc # "idle"
InProgress(r) == r.pc \in { "acquire", "preflight", "submit" }
Count(seq, x) == Cardinality({ i \in DOMAIN seq : seq[i] = x })

\* the revert payload of e decodes as the plain-message error Error(string)
MessageStyle(e) ==
    /\ extractRevertData(e) # NoData
    /\ parseError(extractRevertData(e)).found
    /\ parseError(extractRevertData(e)).name = "Error"

\* C1: a write whose preflight fails with a payload that decodes as the
\* plain-message error with string s rejects with a failure whose message
\* is exactly s, and makes no submission.
C1_PreflightMessageSurfaced ==
    \A w \in Writes :
        (wr[w].pc = "done" /\ wr[w].sim = "fail" /\ MessageStyle(wr[w].raw)) =>
            /\ wr[w].out.kind = "rejected"
            /\ wr[w].out.err.message = parseError(extractRevertData(wr[w].raw)).arg
            /\ Count(wr[w].log, "send") = 0

\* C6: submitting is true whenever some write of the client instance is in
\* progress, and false when none is.
C6_SubmittingWhileInProgress ==
    \A c \in Clients :
        submitting[c] <=> (\E w \in Writes : wr[w].client = c /\ InProgress(wr[w]))

\* C7 as stated: a write invoked while the signer's active chain differs
\* from the descriptor's chain rejects with WrongNetwork, with no network
\* call before the rejection.
C7_WrongChainRejects ==
    \A w \in Writes :
        (Started(wr[w]) /\ chainId(wr[w].snap) # ConfigChainId(wr[w].client)) =>
            /\ wr[w].pc \in { "acquire", "done" }
            /\ wr[w].log = << >>
            /\ wr[w].pc = "done" =>
                 wr[w].out = Rejected(WrongNetworkError(ConfigChainId(wr[w].client)))

\* C7 amended: a write invoked while the signer is connected and exposes a
\* channel, and its active chain differs from the descriptor's chain,
\* rejects with WrongNetwork, with no network call before the rejection.
C7_ConnectedWrongChainRejects ==
    \A w \in Writes :
        (/\ Started(wr[w])
         /\ isConnected(wr[w].snap) /\ HasProvider(wr[w].snap)
         /\ chainId(wr[w].snap) # ConfigChainId(wr[w].client)) =>
            /\ wr[w].pc \in { "acquire", "done" }
            /\ wr[w].log = << >>
            /\ wr[w].pc = "done" =>
                 wr[w].out = Rejected(WrongNetworkError(ConfigChainId(wr[w].client)))

C7_Witness ==
    \E w \in Writes :
        /\ wr[w].pc = "done"
        /\ isConnected(wr[w].snap) /\ HasProvider(wr[w].snap)
        /\ chainId(wr[w].snap) # ConfigChainId(wr[w].client)
        /\ wr[w].out.kind = "rejected"

\* C8: a write invoked while the signer is not connected or has no channel
\* rejects with NotConnected before any network call; connected (with a
\* channel) but on another chain, with WrongNetwork; a write reaches the
\* preflight only when the signer was connected, had a channel and was on
\* the descriptor's chain.
C8_FailFast ==
    \A w \in Writes :
        Started(wr[w]) =>
            LET s == wr[w].snap
                c == wr[w].client
                failsFast(e) == /\ wr[w].pc \in { "acquire", "done" }
                                /\ wr[w].log = << >>
                                /\ wr[w].sim = "none"
                                /\ wr[w].pc = "done" => wr[w].out = Rejected(e)
            IN  /\ (~isConnected(s) \/ ~HasProvider(s)) => failsFast(NotConnectedError)
                /\ (isConnected(s) /\ HasProvider(s) /\ chainId(s) # ConfigChainId(c))
                      => failsFast(WrongNetworkError(ConfigChainId(c)))
                /\ (wr[w].pc \in { "preflight", "submit" } \/ wr[w].sim # "none")
                      => /\ isConnected(s) /\ HasProvider(s)
                         /\ chainId(s) = ConfigChainId(c)

C8_Witness ==
    /\ \E w \in Writes : wr[w].pc = "done" /\ wr[w].out = Rejected(NotConnectedError)
                         /\ isConnected(wr[w].snap)
    /\ \E w \in Writes : wr[w].pc = "preflight"

\* C9: the submission is made only after the same write's simulation has
\* succeeded; a write whose simulation fails never submits; a write whose
\* simulation succeeds submits exactly once, and a write that returns
\* returns the handle that submission produced.
C9_SubmitAfterPreflight ==
    \A w \in Writes :
        /\ Count(wr[w].log, "send") > 0 =>
              /\ wr[w].sim = "ok"
              /\ wr[w].log = << "getSigner", "staticCall", "send" >>
        /\ wr[w].sim = "fail" =>
              /\ Count(wr[w].log, "send") = 0
              /\ wr[w].pc = "done" /\ wr[w].out.kind = "rejected"
        /\ wr[w].sim = "ok" => Count(wr[w].log, "send") = 1
        /\ wr[w].out.kind = "resolved" =>
              /\ wr[w].sim = "ok"
              /\ wr[w].sent # 0 /\ wr[w].out.tx = wr[w].sent

C9_Witness ==
    /\ \E w \in Writes : wr[w].out.kind = "resolved"
    /\ \E w \in Writes : wr[w].sim = "fail" /\ wr[w].pc = "done"


(***************************************************************************)
(* Properties of read() and fetchData.                                     *)
(***************************************************************************)
Done(r) == rd[r].pc = "done"

\* a read of the same instance was issued after read r
Superseded(r) ==
    \E q \in Reads : /\ rd[q].pc # "idle"
                     /\ rd[q].client = rd[r].client
                     /\ rd[q].fetchId > rd[r].fetchId

\* the reads of instance c that returned a value, in completion order
IsCommit(r) == rd[r].out.kind = "resolved"
Commits(c) == SelectSeq(completed, LAMBDA r : rd[r].client = c /\ IsCommit(r))

C4_LastIssuedWins ==
    \A r \in Reads :
        /\ (Done(r) /\ IsCommit(r)) => (rd[r].fresh /\ rd[r].out = rd[r].fres)
        /\ (Done(r) /\ IsCommit(r) /\ rd[r].fetchId = latestFetchId[rd[r].client]) =>
              LET cs == Commits(rd[r].client) IN
              Len(cs) > 0 /\ cs[Len(cs)] = r

\* an older read, whose call succeeded, completed after the newest read
C4_Witness ==
    \E a, b \in Reads :
        /\ a < b /\ rd[a].client = rd[b].client
        /\ completed = << b, a >>
        /\ rd[a].fres = Value(a) /\ rd[b].out = Value(b)

\* C5: issuing a read sets loading; loading goes from true to false only in
\* the completion of a read whose token is the highest issued at that
\* moment; the completion of a superseded read leaves loading as it was.
C5_LoadingSteps ==
    [][ \A c \in Clients :
          /\ latestFetchId'[c] # latestFetchId[c] => loading'[c]
          /\ (loading[c] /\ ~loading'[c]) =>
                \E r \in Reads : /\ rd[r].client = c
                                 /\ rd[r].pc # "done" /\ rd'[r].pc = "done"
                                 /\ rd[r].fetchId = latestFetchId[c]
          /\ \A r \in Reads :
                (/\ rd[r].client = c
                 /\ rd[r].pc \notin { "idle", "done" } /\ rd'[r].pc = "done"
                 /\ rd[r].fetchId # latestFetchId[c]) => loading'[c] = loading[c]
      ]_vars

C5_Witness ==
    \E a, b \in Reads :
        /\ rd[a].client = rd[b].client
        /\ Done(a) /\ ~rd[a].fresh /\ rd[b].pc \notin { "idle", "done" }
        /\ loading[rd[a].client]

(***************************************************************************)
(* Properties of getRpcProvider.                                           *)
(***************************************************************************)
IsPoolProbe(p) == ~p.cached
PoolProbes(g) == SelectSeq(g.probes, IsPoolProbe)

\* C10: a call probes the pool in configured order: candidate j is the j-th
\* pool probe of the call, it is probed only after every earlier candidate's
\* probe has failed, none is probed twice, and the call returns the handle
\* of the first candidate whose probe succeeds.
C10_ProbesInOrder ==
    \A k \in RpcCalls :
        LET g == rpc[k]
            pool == PoolProbes(g)
            n == Len(pool)
        IN  /\ n <= Len(Endpoints(g.chain))
            /\ \A j \in 1 .. n :
                  /\ pool[j].h.ep = j
                  /\ j < n => pool[j].res = "fail"
            /\ (g.pc = "probePool") => (n > 0 /\ pool[n].res = "pending")
            /\ (g.pc = "returned" /\ n > 0) =>
                  /\ pool[n].res = "ok"
                  /\ g.ret = pool[n].h
            /\ (g.pc = "threw" /\ n > 0) => pool[n].res = "fail"

C10_Witness ==
    \E k \in RpcCalls :
        /\ rpc[k].pc = "returned"
        /\ Len(PoolProbes(rpc[k])) = 3
        /\ rpc[k].ret.ep = 3


(***************************************************************************)
(* Properties of the cache and of the fallback pool.                       *)
(***************************************************************************)
FailedProbe(h, cached) == [ Probe(h, cached) EXCEPT !.res = "fail" ]

\* C11: a getRpcProvider call that finds a handle cached for its chain
\* probes that handle and nothing else first; when the probe succeeds the
\* call returns that handle with no pool endpoint probed and the cache as it
\* was; when the probe fails the same step empties the chain's slot and
\* starts probing the pool at its first endpoint.
C11_CachedHandleFirst ==
    [][\A k \in RpcCalls :
          /\ (rpc[k].pc = "idle" /\ rpc'[k].pc # "idle"
                 /\ providerCache[rpc'[k].chain] # NoHandle) =>
                /\ rpc'[k].pc = "probeCached"
                /\ rpc'[k].probes = << Probe(providerCache[rpc'[k].chain], TRUE) >>
          /\ (rpc[k].pc = "probeCached" /\ rpc'[k].pc # "probeCached") =>
                \/ /\ rpc'[k].pc = "returned"
                   /\ rpc'[k].ret = rpc[k].h
                   /\ rpc'[k].probes = << [ Probe(rpc[k].h, TRUE) EXCEPT !.res = "ok" ] >>
                   /\ providerCache' = providerCache
                \/ /\ rpc'[k].pc = "probePool"
                   /\ providerCache'[rpc[k].chain] = NoHandle
                   /\ rpc'[k].probes = << FailedProbe(rpc[k].h, TRUE),
                                          Probe(Handle(1, k), FALSE) >>
      ]_vars

\* a call cached its second or third endpoint after a failure, a later call
\* returned that handle on its probe alone, and a third call's probe of it
\* failed and went on to the first endpoint of the pool
C11_Witness ==
    \E k1, k2, k3 \in RpcCalls :
        /\ rpc[k1].pc = "returned" /\ rpc[k1].ret.by = k1 /\ rpc[k1].ret.ep > 1
        /\ rpc[k2].pc = "returned" /\ rpc[k2].ret = rpc[k1].ret
        /\ Len(rpc[k2].probes) = 1 /\ rpc[k2].probes[1].cached
        /\ Len(rpc[k3].probes) > 1
        /\ rpc[k3].probes[1] = FailedProbe(rpc[k1].ret, TRUE)
        /\ rpc[k3].probes[2].h.ep = 1

\* C12: clearProviderCache leaves no handle cached for any chain, and the
\* getRpcProvider call that follows it probes the pool from its first
\* endpoint (or throws for a chain without a pool), also when other
\* getRpcProvider calls were in flight at the time of the clear.
C12_ClearThenReprobe ==
    [][/\ (cleared' /\ rpc' = rpc) =>
             \A ch \in ENABLED_CHAIN_IDS : providerCache'[ch] = NoHandle
       /\ \A k \in RpcCalls :
             (cleared /\ rpc[k].pc = "idle" /\ rpc'[k].pc # "idle") =>
                \/ rpc'[k].probes = << Probe(Handle(1, k), FALSE) >>
                \/ /\ rpc'[k].pc = "threw"
                   /\ rpc'[k].err = NoEndpointsError(rpc'[k].chain)
      ]_vars

\* C13: a getRpcProvider call throws "All RPC endpoints failed" only after
\* it has probed every endpoint of the chain's non-empty pool and each probe
\* failed; while an endpoint is untried no failure is surfaced; and it throws
\* "No RPC endpoints configured" exactly when the chain has no pool, without
\* probing any endpoint.
C13_FailsOnlyAfterAll ==
    \A k \in RpcCalls :
        LET g == rpc[k]
            pool == PoolProbes(g)
            n == Len(Endpoints(g.chain))
        IN  /\ g.pc # "threw" => g.err = NoError
            /\ g.pc = "threw" =>
                  g.err \in { AllEndpointsFailedError(g.chain),
                              NoEndpointsError(g.chain) }
            /\ (g.pc = "threw" /\ g.err = AllEndpointsFailedError(g.chain)) =>
                  /\ n > 0
                  /\ Len(pool) = n
                  /\ \A j \in 1 .. n : pool[j].h.ep = j /\ pool[j].res = "fail"
            /\ (g.pc = "threw" /\ g.err = NoEndpointsError(g.chain)) <=>
                  (Started(g) /\ n = 0)
            /\ (Started(g) /\ n = 0) => g.probes = << >>

\* one call threw after the cached handle and then every endpoint of the
\* pool failed, and one call threw for a chain without a pool
C13_Witness ==
    \E k2, k3 \in RpcCalls :
        /\ rpc[k2].pc = "threw" /\ rpc[k2].err = AllEndpointsFailedError(rpc[k2].chain)
        /\ Len(rpc[k2].probes) = Len(Endpoints(rpc[k2].chain)) + 1
        /\ rpc[k3].pc = "threw" /\ rpc[k3].err = NoEndpointsError(rpc[k3].chain)

(***************************************************************************)
(* Properties of getReadContract.                                          *)
(***************************************************************************)
Unconfigured(c) == ConfigChainId(c) \notin DOMAIN RPC_ENDPOINTS

\* C14 as stated: getRpcEndpoints returns the empty sequence for a chain
\* without configuration, and every read of a client whose config names
\* such a chain fails with "No RPC endpoints configured".
C14_UnconfiguredAlwaysFails ==
    /\ \A c \in Clients :
          Unconfigured(c) => getRpcEndpoints(ConfigChainId(c)) = << >>
    /\ \A r \in Reads :
          (Done(r) /\ Unconfigured(rd[r].client)) =>
              rd[r].out = Failure(NoEndpointsError(ConfigChainId(rd[r].client)))

\* C14 amended: getRpcEndpoints returns the empty sequence for a chain
\* without configuration; a read of a client whose config names such a
\* chain, issued while the wallet's provider is not used (no wallet
\* connected, another chain, no provider, or a provider that cannot be
\* wrapped), probes nothing and its getReadContract fails with "No RPC
\* endpoints configured"; read() rejects with that error when its fetch is
\* still the latest of the instance, and with "Stale fetch result" otherwise.
C14_UnconfiguredFailsOffWallet ==
    /\ [](/\ \A c \in Clients :
                Unconfigured(c) => getRpcEndpoints(ConfigChainId(c)) = << >>
          /\ \A r \in Reads :
                LET e == NoEndpointsError(ConfigChainId(rd[r].client)) IN
                (/\ Started(rd[r]) /\ Unconfigured(rd[r].client)
                 /\ rd[r].conn # "wallet") =>
                    /\ rd[r].pc \in { "settled", "done" }
                    /\ rd[r].fres = Failure(e)
                    /\ rd[r].g.probes = << >>
                    /\ Done(r) =>
                         rd[r].out = IF rd[r].fresh THEN Failure(e)
                                     ELSE Failure(StaleError))
    /\ [][\A r \in Reads :
             (/\ rd[r].pc = "idle" /\ rd'[r].pc # "idle"
              /\ Unconfigured(rd'[r].client)) =>
                 (rd'[r].conn = "wallet" <=>
                     UsesWallet(connectedWallet, rd'[r].client))
         ]_vars

\* on the client of a chain without pool, one read went through the wallet
\* and resolved, and one read issued off the wallet was rejected with "No
\* RPC endpoints configured"
C14_Witness ==
    \E r, q \in Reads :
        /\ Unconfigured(rd[r].client) /\ rd[q].client = rd[r].client
        /\ Done(r) /\ rd[r].conn = "wallet" /\ rd[r].out = Value(r)
        /\ Done(q) /\ rd[q].conn = "none"
        /\ rd[q].out = Failure(NoEndpointsError(ConfigChainId(rd[q].client)))

\* C15: a read takes its connection from the wallet's provider exactly when,
\* as getReadContract runs, a wallet is connected, its chain is the config's
\* chain and its provider can be wrapped; then no getRpcProvider call is
\* made.  In every other case the read calls getRpcProvider for the
\* config's chain, and never ends up on the wallet's provider.
C15_WalletExactlyWhenUsable ==
    /\ [][\A r \in Reads :
             (rd[r].pc = "idle" /\ rd'[r].pc # "idle") =>
                 LET c == rd'[r].client
                     w == connectedWallet
                 IN  /\ rd'[r].conn = "wallet" <=>
                           /\ isConnected(w)
                           /\ chainId(w) = ConfigChainId(c)
                           /\ w.provider = "ok"
                     /\ rd'[r].conn = "wallet" =>
                           (rd'[r].pc = "invoke" /\ rd'[r].g = IdleCall)
                     /\ rd'[r].conn # "wallet" =>
                           /\ rd'[r].g.pc # "idle"
                           /\ rd'[r].g.chain = ConfigChainId(c)
         ]_vars
    /\ [][\A r \in Reads :
             rd[r].pc # "idle" =>
                 (rd'[r].conn = "wallet" <=> rd[r].conn = "wallet")
         ]_vars

\* one read ran on the wallet's provider, and one, issued with a wallet
\* connected on the config's chain whose provider cannot be wrapped, is
\* inside getRpcProvider
C15_Witness ==
    \E r, q \in Reads :
        /\ Done(r) /\ rd[r].conn = "wallet" /\ rd[r].client = rd[q].client
        /\ rd[q].pc = "resolve" /\ Len(rd[q].g.probes) = 1
        /\ isConnected(connectedWallet)
        /\ chainId(connectedWallet) = ConfigChainId(rd[q].client)
        /\ connectedWallet.provider = "bad"

(***************************************************************************)
(* Writes and the fallback pool.                                           *)
(***************************************************************************)
SignerCalls == { "getSigner", "staticCall", "send" }

\* C16: no step of a write calls getRpcProvider, probes an endpoint of the
\* pool or changes providerCache; every network call of a write is made on
\* the wallet's provider, and the simulation and the submission are made
\* only by a write that found the wallet connected on the config's chain
\* with a provider that can be wrapped.
C16_WritesOffThePool ==
    /\ [][UNCHANGED << providerCache, rpc, rd >>]_vars
    /\ [](\A w \in Writes :
             /\ \A i \in DOMAIN wr[w].log : wr[w].log[i] \in SignerCalls
             /\ wr[w].log # << >> =>
                   /\ wr[w].log[1] = "getSigner"
                   /\ isConnected(wr[w].snap)
                   /\ chainId(wr[w].snap) = ConfigChainId(wr[w].client)
                   /\ wr[w].snap.provider = "ok")

\* one write was simulated and submitted and another was rejected by its
\* simulation, with the cache still empty and no getRpcProvider call made
C16_Witness ==
    \E v, w \in Writes :
        /\ wr[v].pc = "done" /\ wr[v].log = << "getSigner", "staticCall", "send" >>
        /\ wr[v].out.kind = "resolved"
        /\ wr[w].pc = "done" /\ wr[w].log = << "getSigner", "staticCall" >>
        /\ wr[w].sim = "fail"
        /\ \A ch \in ENABLED_CHAIN_IDS : providerCache[ch] = NoHandle
        /\ \A k \in RpcCalls : rpc[k] = IdleCall

(***************************************************************************)
(* Interleaving of getRpcProvider calls.                                   *)
(***************************************************************************)
InFlight(g) == g.pc \in { "probeCached", "probePool" }

\* C17: each getRpcProvider access to a chain's slot is atomic: between a
\* call's lookup of the slot and its return, eviction or insertion, no other
\* getRpcProvider call looks the slot up or changes it, and
\* clearProviderCache does not empty it.
C17_SlotAccessAtomic ==
    [][\A k \in RpcCalls :
          (InFlight(rpc[k]) /\ rpc'[k] = rpc[k]) =>
              /\ providerCache'[rpc[k].chain] = providerCache[rpc[k].chain]
              /\ \A j \in RpcCalls :
                    (rpc[j].pc = "idle" /\ rpc'[j].pc # "idle") =>
                        rpc'[j].chain # rpc[k].chain
      ]_vars

(***************************************************************************)
(* Eviction of cached handles.                                             *)
(***************************************************************************)
\* the cache is a map: a chain has one slot, empty or holding one handle
\* built from an endpoint of the chain's pool
OneHandlePerChain ==
    /\ DOMAIN providerCache = ENABLED_CHAIN_IDS
    /\ \A ch \in ENABLED_CHAIN_IDS :
          \/ providerCache[ch] = NoHandle
          \/ providerCache[ch].ep \in 1 .. Len(Endpoints(ch))

\* read r's probe of the cached handle fails in this step
CachedProbeFails(r) ==
    /\ rd[r].g.pc = "probeCached"
    /\ rd'[r].g.pc # "probeCached"
    /\ rd'[r].g.probes[1].res = "fail"

\* read r's contract call on a handle of the pool fails in this step
UseFails(r) ==
    /\ rd[r].pc = "invoke" /\ rd[r].conn = "rpc"
    /\ rd'[r].pc = "done" /\ rd'[r].fres.kind = "rejected"

C19_TokensIncrease ==
    /\ [](\A r, q \in Reads :
             (/\ Started(rd[r]) /\ Started(rd[q]) /\ r < q
              /\ rd[r].client = rd[q].client) =>
                 rd[r].fetchId < rd[q].fetchId)
    /\ [](\A r \in Reads :
             Started(rd[r]) => rd[r].fetchId <= latestFetchId[rd[r].client])
    /\ [][\A r \in Reads :
             /\ (rd[r].pc = "idle" /\ rd'[r].pc # "idle") =>
                   /\ rd'[r].fetchId > latestFetchId[rd'[r].client]
                   /\ rd'[r].fetchId = latestFetchId'[rd'[r].client]
             /\ rd[r].pc # "idle" =>
                   (rd'[r].fetchId = rd[r].fetchId /\ rd'[r].client = rd[r].client)
         ]_vars

\* the second fetch of an instance, with token 2, was issued while the
\* first, with token 1, was in flight, and completed before it
C19_Witness ==
    \E r, q \in Reads :
        /\ rd[r].client = rd[q].client
        /\ rd[r].fetchId = 1 /\ rd[q].fetchId = 2
        /\ completed = << q, r >>

(***************************************************************************)
(* Reads do not wait for each other.                                       *)
(***************************************************************************)
\* the step read r is waiting for: the reply to its probe or to its call,
\* or fetchData resuming
ReadStep(r) ==
    ReadProbeCached(r) \/ ReadProbePool(r) \/ ReadInvoke(r) \/ ReadSettled(r)

\* C20: a read can be issued in every state, whatever reads are in flight,
\* and no read waits for another: from its issue on, a read is awaiting its
\* own probe or its own contract call, and the step that resumes it is
\* possible whatever the state of the other reads.
C20_ReadsNeverWait ==
    \A r \in Reads :
        /\ (rd[r].pc = "idle" /\ \A q \in Reads : q < r => rd[q].pc # "idle") =>
              ENABLED ReadStart(r)
        /\ (Started(rd[r]) /\ ~Done(r)) =>
              /\ rd[r].pc \in { "resolve", "invoke", "settled" }
              /\ rd[r].pc = "resolve" => InFlight(rd[r].g)
              /\ ENABLED ReadStep(r)

\* two reads of one instance are in flight at once, one inside getRpcProvider
\* and one awaiting its contract call
C20_Witness ==
    \E r, q \in Reads :
        /\ rd[r].client = rd[q].client
        /\ rd[r].pc = "resolve" /\ rd[q].pc = "invoke"
        /\ loading[rd[r].client]

(***************************************************************************)
(* Decoding of the failures of a write.                                    *)
(***************************************************************************)
\* the write has ended on a failure of its simulation or of its submission
PreflightFailed(r) == r.pc = "done" /\ r.sim = "fail"
SubmitFailed(r) ==
    r.pc = "done" /\ r.sim = "ok" /\ r.out.kind = "rejected"

\* the revert payload of e decodes as an error of config.abi other than
\* Error(string)
NamedStyle(e) ==
    /\ extractRevertData(e) # NoData
    /\ parseError(extractRevertData(e)).found
    /\ parseError(extractRevertData(e)).name # "Error"

\* C21: a write whose simulation or submission fails with a payload that
\* decodes as an error of config.abi other than Error(string) rejects with a
\* failure whose message is the name of that error.
C21_NamedErrorSurfaced ==
    \A w \in Writes :
        ((PreflightFailed(wr[w]) \/ SubmitFailed(wr[w])) /\ NamedStyle(wr[w].raw)) =>
            /\ wr[w].out.kind = "rejected"
            /\ wr[w].out.err.message = parseError(extractRevertData(wr[w].raw)).name

\* what a failure with raw error e is to be surfaced as: the decoded reason
\* when the payload of e decodes, e itself otherwise
Surfaced(e) ==
    IF MessageStyle(e) \/ NamedStyle(e)
      THEN NewError(DecodedMessage(parseError(extractRevertData(e))))
    ELSE e

\* C22: a failure of the submission is handled as a failure of the
\* simulation is: for every raw error e, a write whose submission fails with
\* e and a write whose simulation fails with e reject with the same failure,
\* which is the decoded reason when the payload of e decodes and e otherwise.
C22_SubmitFailsAsPreflightFails ==
    /\ \A v, w \in Writes :
          (PreflightFailed(wr[v]) /\ SubmitFailed(wr[w]) /\ wr[v].raw = wr[w].raw) =>
              wr[v].out = wr[w].out
    /\ \A w \in Writes :
          (PreflightFailed(wr[w]) \/ SubmitFailed(wr[w])) =>
              wr[w].out = Rejected(Surfaced(wr[w].raw))

\* the error carries no payload, or a payload that parseError does not
\* match or throws on
Undecodable(e) ==
    \/ extractRevertData(e) = NoData
    \/ ~parseError(extractRevertData(e)).found

\* C23: a write whose simulation or submission fails with an error that
\* carries no payload, or whose payload matches no error of config.abi, or
\* makes the decoder throw, rejects with exactly that error: what the
\* decoding throws or yields is never surfaced in its place.
C23_RawErrorWhenUndecodable ==
    \A w \in Writes :
        ((PreflightFailed(wr[w]) \/ SubmitFailed(wr[w])) /\ Undecodable(wr[w].raw)) =>
            wr[w].out = Rejected(wr[w].raw)

\* a submission failed with a payload no error of config.abi matches, and a
\* simulation failed with a payload the decoder throws on
C23_Witness ==
    \E v, w \in Writes :
        /\ SubmitFailed(wr[v]) /\ extractRevertData(wr[v].raw) # NoData
        /\ parseError(extractRevertData(wr[v].raw)) = NullDescription
        /\ wr[v].out = Rejected(wr[v].raw)
        /\ PreflightFailed(wr[w]) /\ parseError(extractRevertData(wr[w].raw)).threw
        /\ wr[w].out = Rejected(wr[w].raw)

(***************************************************************************)
(* The conversion helpers.                                                 *)
(***************************************************************************)
TargetType(fn) ==
    IF fn = "asBigInt" THEN "bigint"
    ELSE IF fn = "asBoolean" THEN "boolean"
    ELSE IF fn = "asNumber" THEN "number"
    ELSE "string"

\* the input has no value of the helper's target type: what is neither a
\* number, a bigint, a boolean nor a string for every helper, and for the
\* numeric helpers a string that is no numeral, for asBigInt a number that
\* is no integer, for asString what is no string
CannotConvert(fn, v) ==
    \/ v.t \in { "object", "undefined" }
    \/ fn = "asBigInt" /\ v.t = "number" /\ ~IsInteger(v)
    \/ fn = "asBigInt" /\ v.t = "string" /\ StringToBigInt(v.s).threw
    \/ fn = "asNumber" /\ v.t = "string" /\ StringToNumber(v.s) = NaN
    \/ fn = "asString" /\ v.t # "string"

\* C24: each conversion helper is total: for every input it returns a value
\* of its target type, the given fallback when the input cannot be
\* converted, and it never throws.
C24_HelpersTotal ==
    calc.fn \in Helpers =>
        /\ ~calc.out.threw
        /\ calc.out.val.t = TargetType(calc.fn)
        /\ CannotConvert(calc.fn, calc.arg) => calc.out.val = calc.fallback

(***************************************************************************)
(* Writes do not wait for each other.                                      *)
(***************************************************************************)
\* the step write w is waiting for: the reply to getSigner, to its
\* simulation or to its submission
WriteStep(w) == WriteAcquire(w) \/ WritePreflight(w) \/ WriteSubmit(w)

\* C25: writes are not deduplicated, queued or serialized: a write can be
\* issued whatever writes are in progress; every write that passes
\* getWriteContract makes its own simulation, and every write whose
\* simulation passes makes its own submission, one each; and the step that
\* resumes a write in progress is possible whatever the other writes are
\* doing.
C25_WritesIndependent ==
    \A w \in Writes :
        LET r == wr[w] IN
        /\ (r.pc = "idle" /\ \A v \in Writes : v < w => wr[v].pc # "idle") =>
              ENABLED WriteStart(w)
        /\ InProgress(r) => ENABLED WriteStep(w)
        /\ r.pc = "preflight" => r.log = << "getSigner", "staticCall" >>
        /\ r.pc = "submit" => r.log = << "getSigner", "staticCall", "send" >>
        /\ r.sim # "none" => Count(r.log, "staticCall") = 1
        /\ r.sim = "ok" => Count(r.log, "send") = 1
        /\ r.sim # "ok" => Count(r.log, "send") = 0

\* two writes of one instance have both passed their simulation and both
\* submissions are in flight
C25_Witness ==
    \E v, w \in Writes :
        /\ v # w /\ wr[v].client = wr[w].client
        /\ wr[v].pc = "submit" /\ wr[w].pc = "submit"
        /\ submitting[wr[v].client]

(***************************************************************************)
(* The cache hit.                                                          *)
(***************************************************************************)
\* C26: when a getRpcProvider call has found a handle cached and its probe
\* of it succeeds, the call returns that very handle, has probed no endpoint
\* of the pool, and the step leaves every slot of the cache as it is.
C26_HitReturnsCachedHandle ==
    [][\A k \in RpcCalls :
          (rpc[k].pc = "probeCached" /\ rpc'[k].pc = "returned") =>
              /\ rpc'[k].ret = rpc[k].probes[1].h
              /\ rpc[k].probes[1].cached
              /\ Len(rpc'[k].probes) = 1
              /\ PoolProbes(rpc'[k]) = << >>
              /\ \A ch \in ENABLED_CHAIN_IDS :
                    providerCache'[ch] = providerCache[ch]
      ]_vars

\* with handles cached for two chains, a call has returned the handle
\* another call had cached, on its probe alone
C26_Witness ==
    \E k, j \in RpcCalls :
        /\ rpc[k].pc = "returned" /\ rpc[k].probes[1].cached
        /\ rpc[k].ret.by = j /\ j # k
        /\ providerCache[rpc[k].chain] = rpc[k].ret
        /\ \E ch \in ENABLED_CHAIN_IDS :
              ch # rpc[k].chain /\ providerCache[ch] # NoHandle

(***************************************************************************)
(* extractRevertData.                                                      *)
(***************************************************************************)
PayloadFields(e) == << e.data, e.error_data, e.info_error_data >>

\* C27: the payload extracted from an error is the first present one of
\* e.data, e.error.data, e.info.error.data, in this order, and it is absent
\* only when all three are absent.
C27_FirstPresentPayload ==
    calc.fn = "extractRevertData" =>
        LET fields == PayloadFields(calc.err) IN
        /\ calc.data = NoData <=> \A i \in 1 .. 3 : fields[i] = NoData
        /\ \A i \in 1 .. 3 :
              (fields[i] # NoData /\ \A j \in 1 .. (i - 1) : fields[j] = NoData) =>
                  calc.data = fields[i]

\* e.data is absent and the two nested fields hold different payloads: the
\* one of e.error.data is extracted
C27_Witness ==
    /\ calc.fn = "extractRevertData"
    /\ calc.err.data = NoData
    /\ calc.err.error_data # NoData /\ calc.err.info_error_data # NoData
    /\ calc.err.error_data # calc.err.info_error_data
    /\ calc.data = calc.err.error_data

(***************************************************************************)
(* The cache is shared by the instances.                                   *)
(***************************************************************************)
\* C28: providerCache is one map for all instances: a read that goes to
\* getRpcProvider, on whatever instance, probes the handle that is in the
\* slot of its chain, whichever instance's read put it there, and is
\* returned that handle when the probe succeeds; and once the slot has been
\* emptied, by an eviction or by clearProviderCache, a read of whatever
\* instance starts on the first endpoint of the pool.
C28_CacheSharedByInstances ==
    [][\A r \in Reads :
          /\ (rd[r].pc = "idle" /\ rd'[r].pc # "idle" /\ rd'[r].conn # "wallet") =>
                LET h == providerCache[ConfigChainId(rd'[r].client)] IN
                /\ h # NoHandle => rd'[r].g.probes = << Probe(h, TRUE) >>
                /\ h = NoHandle => rd'[r].g.probes = << Probe(Handle(1, r), FALSE) >>
          /\ (rd[r].g.pc = "probeCached" /\ rd'[r].g.pc = "returned") =>
                /\ rd'[r].g.ret = rd[r].g.probes[1].h
                /\ rd'[r].pc = "invoke" /\ rd'[r].conn = "rpc"
      ]_vars

\* a read of one instance was returned, on its probe alone, the handle that
\* a read of another instance had cached
C28_Witness ==
    \E r, q \in Reads :
        /\ rd[r].client # rd[q].client
        /\ rd[r].g.pc = "returned" /\ rd[r].g.ret.by = r
        /\ rd[q].g.pc = "returned" /\ rd[q].g.ret = rd[r].g.ret
        /\ rd[q].g.probes = << [ Probe(rd[r].g.ret, TRUE) EXCEPT !.res = "ok" ] >>

(***************************************************************************)
(* The loading flag and the order of commits.                              *)
(***************************************************************************)
\* the read of instance c that holds the token issued last
HoldsLatest(r, c) ==
    /\ Started(rd[r]) /\ rd[r].client = c
    /\ rd[r].fetchId = latestFetchId[c]

\* C29: in every state, loading of an instance is true exactly when the
\* read that holds the instance's last issued token has not completed; so
\* it is false when no read of the instance is in flight, whatever older
\* reads are still in flight.
C29_LoadingIffLatestPending ==
    \A c \in Clients :
        /\ loading[c] <=> \E r \in Reads : HoldsLatest(r, c) /\ ~Done(r)
        /\ (\A r \in Reads : rd[r].client = c => (rd[r].pc = "idle" \/ Done(r))) =>
              ~loading[c]

\* the newest read of an instance has completed and loading is false while
\* an older read of the instance is still in flight
C29_Witness ==
    \E r, q \in Reads :
        /\ rd[r].client = rd[q].client
        /\ HoldsLatest(q, rd[q].client) /\ Done(q)
        /\ rd[r].fetchId < rd[q].fetchId /\ Started(rd[r]) /\ ~Done(r)
        /\ ~loading[rd[q].client]

\* the reads of instance c whose result fetchData passed on to the caller,
\* a value or the fetcher's own error, in completion order
PassedOn(c) ==
    SelectSeq(completed,
              LAMBDA r : rd[r].client = c /\ rd[r].out = rd[r].fres)

\* C30: the tokens of the reads of an instance whose results fetchData
\* passed on as fresh are strictly increasing in completion order: after a
\* read with token t was passed on, no read with a smaller token is.
C30_CommitsIncrease ==
    \A c \in Clients :
        \A i, j \in 1 .. Len(PassedOn(c)) :
            i < j => rd[PassedOn(c)[i]].fetchId < rd[PassedOn(c)[j]].fetchId

\* the newer of two reads of an instance completed first and was passed
\* on; the older one then failed and was not: its caller got "Stale fetch
\* result"
C30_Witness ==
    \E r, q \in Reads :
        /\ rd[r].client = rd[q].client
        /\ rd[r].fetchId < rd[q].fetchId
        /\ completed = << q, r >>
        /\ PassedOn(rd[r].client) = << q >>
        /\ rd[r].fres.kind = "rejected" /\ rd[r].out = Failure(StaleError)

(***************************************************************************)
(* The instances do not share their tokens or their flags.                 *)
(***************************************************************************)
\* C31: the fetch tokens and the loading flag belong to one instance: a
\* step changes loading or latestFetchId of an instance only if it is the
\* issue or the completion of a read of that instance, and a read is found
\* stale only when a newer read of its own instance has been issued.
C31_TokensScopedToInstance ==
    /\ [][\A d \in Clients :
             (loading'[d] # loading[d] \/ latestFetchId'[d] # latestFetchId[d]) =>
                 \E r \in Reads :
                    /\ rd'[r] # rd[r] /\ rd'[r].client = d
                    /\ rd[r].pc = "idle" \/ rd'[r].pc = "done"
         ]_vars
    /\ [](\A r \in Reads :
             /\ (Done(r) /\ ~rd[r].fresh) => Superseded(r)
             /\ (Done(r) /\ rd[r].out = Failure(StaleError)) => Superseded(r))

\* a read of one instance has been issued and has completed while a read
\* of the other instance was in flight, which still holds its instance's
\* last token, with loading still set for it
C31_Witness ==
    \E r, q \in Reads :
        /\ rd[r].client # rd[q].client
        /\ r < q /\ Done(q) /\ rd[q].fresh
        /\ Started(rd[r]) /\ ~Done(r)
        /\ rd[r].fetchId = latestFetchId[rd[r].client]
        /\ loading[rd[r].client] /\ ~loading[rd[q].client]

(***************************************************************************)
(* Reads and writes on one page.                                           *)
(***************************************************************************)
\* C32: reads and writes do not meet in the flags: a step of a write leaves
\* the fetch tokens, the loading flags and every read as they are, so it
\* issues no token and makes no read stale; a step of a read leaves the
\* submitting flags as they are; and a read is found stale only because of
\* a newer read.
C32_ReadsAndWritesApart ==
    /\ [][/\ (\E w \in Writes : wr'[w] # wr[w]) =>
                 UNCHANGED << loading, latestFetchId, rd, completed >>
          /\ (\E r \in Reads : rd'[r] # rd[r]) =>
                 UNCHANGED << submitting, wr, txCount >>
         ]_vars
    /\ [](\A r \in Reads : Done(r) => (rd[r].fresh \/ Superseded(r)))

\* a read and a write of the same instance are in flight at once: the
\* write has passed its simulation and awaits its submission, the read
\* awaits its call and holds the last token, and both flags are set
C32_Witness ==
    \E r \in PageReads, w \in PageWrites :
        /\ rd[r].client = wr[w].client
        /\ wr[w].pc = "submit" /\ rd[r].pc = "invoke"
        /\ rd[r].fetchId = latestFetchId[rd[r].client]
        /\ loading[rd[r].client] /\ submitting[wr[w].client]

(***************************************************************************)
(* Eviction by overlapping getRpcProvider calls.                           *)
(***************************************************************************)
\* the probe of the cached handle that call k awaits fails in this step
CachedProbeFailsIn(k) ==
    /\ rpc[k].pc = "probeCached"
    /\ rpc'[k] # rpc[k]
    /\ rpc'[k].pc # "returned"

\* C33: the eviction after a failed probe removes the handle that was
\* probed: when the slot holds another handle by then, cached by another
\* call in the meantime, the step leaves the slot as it is; and a call
\* that returns returns the handle that is in the chain's slot at that
\* moment.
C33_EvictsWhatItProbed ==
    /\ [][\A k \in RpcCalls :
             (/\ CachedProbeFailsIn(k)
              /\ providerCache[rpc[k].chain] # NoHandle
              /\ providerCache[rpc[k].chain] # rpc[k].h)
             => providerCache'[rpc[k].chain] = providerCache[rpc[k].chain]
         ]_vars
    /\ [][\A k \in RpcCalls :
             (rpc[k].pc # "returned" /\ rpc'[k].pc = "returned")
             => providerCache'[rpc'[k].chain] = rpc'[k].ret
         ]_vars

(***************************************************************************)
(* The signer at the moment of the submission.                             *)
(***************************************************************************)
\* the step in which write w makes its submission: the simulation has
\* passed and fn(...args) is called (lines 152-153)
Submits(w) == wr[w].pc = "preflight" /\ wr'[w].pc = "submit"

\* C34: when a write makes its real submission the signer is connected and
\* its active chain is the chain of the descriptor, whatever happened to
\* the signer while the write awaited getSigner and the simulation.
C34_SignerRightAtSubmission ==
    [][\A w \in Writes :
          Submits(w) =>
             /\ isConnected(connectedWallet)
             /\ chainId(connectedWallet) = ConfigChainId(wr[w].client)
      ]_vars

(***************************************************************************)
(* Termination of getRpcProvider.                                          *)
(***************************************************************************)
Finished(g) == g.pc \in { "returned", "threw" }

\* the positions in the pool of the endpoints call g has probed, in order
ProbedEndpoints(g) ==
    [ i \in 1 .. Len(PoolProbes(g)) |-> PoolProbes(g)[i].h.ep ]

\* C35: with every probe resolving in the end, every getRpcProvider call
\* returns or throws in the end (a call never goes back, so this is: again
\* and again every call that has started has finished); it probes the cached handle at most once,
\* and only first, and after it the endpoints of the chain's pool one by
\* one from the first, none of them twice: at most one probe more than the
\* pool has endpoints.
C35_CallsTerminate ==
    /\ [](\A k \in RpcCalls :
             /\ Len(rpc[k].probes) <= 1 + Len(Endpoints(rpc[k].chain))
             /\ \A i \in DOMAIN rpc[k].probes : rpc[k].probes[i].cached => i = 1
             /\ \A i \in DOMAIN ProbedEndpoints(rpc[k]) :
                   ProbedEndpoints(rpc[k])[i] = i)
    /\ []<>(\A k \in RpcCalls : Started(rpc[k]) => Finished(rpc[k]))

\* a call that made all the probes it can make and returned: the cached
\* handle failed, the first endpoints failed and the last one answered
C35_Witness ==
    \E k \in RpcCalls :
        /\ rpc[k].pc = "returned"
        /\ Len(rpc[k].probes) = 1 + Len(Endpoints(rpc[k].chain))
        /\ rpc[k].probes[1].cached
        /\ rpc[k].ret = Handle(Len(Endpoints(rpc[k].chain)), k)

(***************************************************************************)
(* What the cache holds.                                                   *)
(***************************************************************************)
\* handle h was built by a getRpcProvider call for chain ch from an endpoint
\* of ch's pool, and that call's probe of it succeeded
ProbedHandleOf(h, ch) ==
    /\ h.by \in RpcCalls
    /\ rpc[h.by].chain = ch
    /\ h.ep \in 1 .. Len(Endpoints(ch))
    /\ \E i \in DOMAIN rpc[h.by].probes :
          rpc[h.by].probes[i] = [ h |-> h, cached |-> FALSE, res |-> "ok" ]

\* C39: every handle in the slot of a chain was built from an endpoint of
\* that chain's pool and had passed a probe when it was inserted; a step of
\* a getRpcProvider(c) call changes the slot of no other chain; and a call
\* that throws inserts nothing: no slot holds a handle it built.
C39_CacheHoldsProbedHandles ==
    /\ [](\A ch \in ENABLED_CHAIN_IDS :
             providerCache[ch] # NoHandle => ProbedHandleOf(providerCache[ch], ch))
    /\ [](\A k \in RpcCalls :
             rpc[k].pc = "threw" =>
                \A ch \in ENABLED_CHAIN_IDS : providerCache[ch].by # k)
    /\ [][\A k \in RpcCalls :
             rpc'[k] # rpc[k] =>
                /\ \A ch \in ENABLED_CHAIN_IDS \ { rpc'[k].chain } :
                      providerCache'[ch] = providerCache[ch]
                /\ rpc'[k].pc = "threw" => providerCache' = providerCache
         ]_vars

\* both chains with a pool have a handle cached, each by its own call,
\* and a third call has thrown
C39_Witness ==
    /\ providerCache[56] # NoHandle /\ providerCache[97] # NoHandle
    /\ providerCache[56].by # providerCache[97].by
    /\ \E k \in RpcCalls : rpc[k].pc = "threw"

(***************************************************************************)
(* Properties of the wallet store and of the plugin.                       *)
(***************************************************************************)
ConnectInProgress(k) ==
    storeCalls[k].fn = "connectWallet" /\ storeCalls[k].pc = "await"

\* call k is made in this step, before init (the plugin calls init first)
CalledBeforeInit(k) ==
    /\ storeCalls[k].pc = "idle" /\ storeCalls'[k].pc # "idle"
    /\ web3Store.onboard = 0 /\ page'.inits = page.inits

\* C36: isConnecting is true whenever a connectWallet call is in progress
\* and false once connectWallet has left, by return or by throw; and an
\* action of the store called before init rejects with "Onboard not
\* initialized" and leaves the store as it is.
C36_ConnectingWhileInProgress ==
    /\ [](\A k \in StoreCalls : ConnectInProgress(k) => web3Store.isConnecting)
    /\ []((\A k \in StoreCalls : ~ConnectInProgress(k)) => ~web3Store.isConnecting)
    /\ [][\A k \in StoreCalls :
             CalledBeforeInit(k) =>
                /\ storeCalls'[k].out = RejectedWith(NotInitializedError)
                /\ web3Store' = web3Store /\ localStorage' = localStorage
         ]_vars

\* init is called in this step after an earlier init of the page
InitAgain == page'.inits = page.inits + 1 /\ page.inits >= 1

\* C37: init is idempotent: a page creates at most one Onboard instance and
\* one subscription however often init is called, and an init call after
\* the first returns the first instance and leaves the store (and
\* localStorage) as it is; when the caller is the plugin, what changes
\* next is the work of its connectWallet.
C37_InitIdempotent ==
    /\ [](/\ page.instances <= 1 /\ page.subscriptions <= 1
          /\ page.inits >= 1 =>
                (web3Store.onboard = 1 /\ page.initRet = 1 /\ page.instances = 1))
    /\ [][InitAgain =>
             /\ page'.initRet = web3Store.onboard
             /\ page'.instances = page.instances
             /\ page'.subscriptions = page.subscriptions
             /\ web3Store'.onboard = web3Store.onboard
             /\ web3Store'.onboardState = web3Store.onboardState
             /\ web3Store'.alreadyConnectedWallets = web3Store.alreadyConnectedWallets
             /\ localStorage' = localStorage
             /\ page'.pluginRan = page.pluginRan => web3Store' = web3Store
         ]_vars

\* init has been called twice on a page that has a wallet connected: there
\* is one instance and one subscription, and the second call returned the
\* first instance
C37_Witness ==
    /\ page.inits = 2 /\ page.initRet = 1
    /\ page.instances = 1 /\ page.subscriptions = 1
    /\ web3Store.onboard = 1
    /\ wallets(web3Store) # << >>

\* C38: when a state update has been delivered, alreadyConnectedWallets is
\* the list of the labels of the wallets of the onboard state, in their
\* order, and localStorage holds that list; the list is at any time what
\* localStorage holds, so the plugin of the next start finds what was
\* stored: with an empty list it connects nothing, with a non-empty list
\* it calls connectWallet once, for the first label, and catches its
\* rejection.
C38_LabelsPersisted ==
    /\ [](page.updated =>
             /\ web3Store.alreadyConnectedWallets =
                   MapLabels(web3Store.onboardState.wallets)
             /\ localStorage = JSONstringify(web3Store.alreadyConnectedWallets))
    /\ [](localStorage # NotStored =>
             JSONparse(localStorage) =
                [ ok |-> TRUE, val |-> web3Store.alreadyConnectedWallets ])
    /\ [](localStorage = NotStored => web3Store.alreadyConnectedWallets = << >>)
    /\ [](page.pluginRan =>
             /\ page.listAtCheck = << >> => page.attempts = << >>
             /\ page.listAtCheck # << >> => page.attempts = << page.listAtCheck[1] >>)
    /\ [](\A k \in StoreCalls :
             (storeCalls[k].fn = "connectWallet" /\ storeCalls[k].label # NoLabel)
             => /\ k = 1 /\ storeCalls[k].caught
                /\ page.attempts = << storeCalls[k].label >>)
    /\ [][(page'.pluginRan /\ ~page.pluginRan) =>
             /\ page'.listAtCheck = web3Store.alreadyConnectedWallets
             /\ page'.attempts = << >> => storeCalls' = storeCalls
         ]_vars

\* two wallets were connected and the page was started again: the plugin
\* found the two labels and tried the first one only; that connectWallet
\* was rejected and the rejection caught
C38_Witness ==
    /\ page.pluginRan /\ ~page.updated
    /\ Len(page.listAtCheck) = 2
    /\ page.attempts = << page.listAtCheck[1] >>
    /\ localStorage = JSONstringify(page.listAtCheck)
    /\ storeCalls[1].fn = "connectWallet" /\ storeCalls[1].label = page.listAtCheck[1]
    /\ storeCalls[1].out = RejectedWith(OnboardError) /\ storeCalls[1].caught
    /\ ~web3Store.isConnecting

=============================================================================
